---------------------------- MODULE Spec2Model ----------------------------
(***************************************************************************)
(* The TPC-H text-to-SQL benchmark pipeline: the orchestrator's nine       *)
(* stages (benchmark/orchestrator.py, benchmark/pipeline.py), the          *)
(* readiness checks (benchmark/validation.py), the table loader            *)
(* (benchmark/data_loader.py) and the query executor                       *)
(* (database/executor.py).                                                 *)
(*                                                                         *)
(* A directory is a function from the stems of the files in it to their    *)
(* contents; a file exists when its stem is in the DOMAIN.  Identifiers    *)
(* are numbers standing for fixed-width file stems, so that the sort       *)
(* order of the stems is the order of the numbers.  Files that a glob      *)
(* lists are taken to be readable.                                         *)
(***************************************************************************)
EXTENDS Integers, Sequences, FiniteSets, TLC

\* ------------------------------------------------------------------ bounds
\* Identifiers 1..MaxVar are the ones whose artifacts vary; the others start
\* with every artifact of an earlier run already in place.
MaxVar == 2
\* Number of runs of the orchestrator in one behaviour (a run, then restarts).
MaxRuns == 2
\* The lines of a response stream.
MaxFrags == 3
\* The pieces of a model output given to the SQL extraction.
MaxPieces == 5
\* The identifiers of the directories given to the completeness check.
MaxStems == 3
\* The tables of a database that are not in their loaded state.
MaxFaulty == 2
\* The readiness checks made one after the other.
MaxProbes == 3

\* ------------------------------------------------------- program constants
\* check_directory(questions_dir, "md", 22) / check_directory(queries_dir, "sql", 22)
ExpectedCount == 22

\* The tables in alphabetical order.
TPCH_TABLES_alphabetical ==
    << "customer", "lineitem", "nation", "orders",
       "part", "partsupp", "region", "supplier" >>

\* data_loader.TPCH_TABLES
TPCH_TABLES ==
    << "region", "nation", "part", "supplier",
       "customer", "partsupp", "orders", "lineitem" >>

Tables == { TPCH_TABLES[i] : i \in 1..Len(TPCH_TABLES) }

\* The foreign keys of the TPC-H schema: the tables each table references.
References ==
    [t \in Tables |->
        CASE t = "nation"   -> { "region" }
          [] t = "supplier" -> { "nation" }
          [] t = "customer" -> { "nation" }
          [] t = "partsupp" -> { "part", "supplier" }
          [] t = "orders"   -> { "customer" }
          [] t = "lineitem" -> { "orders", "part", "supplier", "partsupp" }
          [] OTHER          -> {}]

\* The tables a table references, directly or through other tables.
RECURSIVE Ancestors(_)
Ancestors(t) ==
    References[t] \cup UNION { Ancestors(parent) : parent \in References[t] }

\* A cascade that takes every other table with it.
Dependents_all(t) == Tables \ { t }

\* TRUNCATE TABLE t CASCADE also empties the tables with a foreign key to t,
\* and the tables with a foreign key to those.
Dependents(t) == { c \in Tables : t \in Ancestors(c) }

\* ----------------------------------------------------------------- helpers
Ids == 1..(ExpectedCount + 1)
VarIds == 1..MaxVar
Stages == 1..9

EmptyDir == [x \in {} |-> 0]

\* pathlib write_text / DataFrame.to_csv: create or overwrite one file.
WriteFile(dir, id, content) ==
    [x \in (DOMAIN dir) \cup {id} |-> IF x = id THEN content ELSE dir[x]]

\* sorted(...) over a set of stems: its elements in increasing order.
SortedSeq(S) ==
    LET inS(x) == x \in S
    IN  SelectSeq([i \in 1..(ExpectedCount + 1) |-> i], inS)

Range(s) == { s[i] : i \in 1..Len(s) }

\* [q for q in files if q.stem not in existing]
\* A filter that filters nothing out (every file is taken as pending).
FilterNotIn_keepAll(s, existing) == s

RECURSIVE FilterNotIn(_, _)
FilterNotIn(s, existing) ==
    IF s = << >> THEN << >>
    ELSE IF Head(s) \in existing
         THEN FilterNotIn(Tail(s), existing)
         ELSE << Head(s) >> \o FilterNotIn(Tail(s), existing)

\* sum(1 for r in results if r['status'] == st)
RECURSIVE CountStatus(_, _)
CountStatus(results, st) ==
    IF results = << >> THEN 0
    ELSE (IF Head(results).status = st THEN 1 ELSE 0)
         + CountStatus(Tail(results), st)

\* ------------------------------------------------------------------- state
VARIABLES
    \* --- inputs, fixed during a behaviour
    dataPath,       \* BENCHMARK_DATA_PATH is set
    questionsDir,   \* [exists, files, pattern]: *.md stems, and those holding the question pattern
    queriesDir,     \* [exists, files]: reference *.sql stems
    schemaFile,     \* "missing" | "bad" (a statement fails) | "ok"
    dbUp,           \* the database accepts connections
    fresh,          \* identifiers whose queries and questions the database and
                    \* the model backend may answer in any way; the others
                    \* they answer well
    \* --- files and database
    dataDir,        \* [exists, tbl]: tbl maps a table to "absent" | "empty" | "rows" | "garbage"
    dbTables,       \* tables that exist in the database
    dbRows,         \* table -> number of rows
    refAnswers,     \* benchmark/.tpch/answers: stem -> CSV
    genSql,         \* BENCHMARK_OUTPUT_DIR: [exists, files], files: stem -> SQL text
    genAnswers,     \* benchmark/answers: [exists, files], files: stem -> CSV
    reportDir,      \* benchmark/answers/report: [exists, per_query, summary]
    sessions,       \* benchmark/results: sequence of session directories
    origin,         \* of each generated-answer CSV: the SQL text it was executed from
    \* --- the run
    pc,             \* position of main()
    run,            \* number of the current run
    exitCode,       \* -1 while running, else the value main() returned
    error,          \* the exception that reached main(): its class and message
    is_ready,       \* result of stage 3: "unset" | "yes" | "no"
    work,           \* locals of the running stage: [todo, i]
    results,        \* stage -> the results list it has built (stages 5, 6, 7)
    \* --- observation of the run (reset when a run starts)
    started,        \* stages started, in order
    returned,       \* stages that returned normally
    dbLog,          \* stage 4's database operations, in order
    execLog,        \* executor calls: [stage, id, ret], in order
    before,         \* stage -> its output directory as the stage found it
    llmLog,         \* model client invocations (ids), in order
    schemaFetches,  \* calls of get_database_schema_string
    emitted,        \* per-identifier reports written by stage 8, in order
    atStart,        \* what existed when the run started
    resumed6,       \* the previous run was interrupted after its stage 6 returned
    generatorRuns,  \* invocations of the external data generator
    \* --- one invocation of the model client (llm/service.py)
    cpc,            \* where the generator and its caller are
    cancellable,    \* the caller passed a stop_check
    stop,           \* [tokens, frags] delivered and read when stop_check became
                    \* true; -1 while it is false
    response,       \* status code of the response; 0 while there is none
    responseOpen,   \* the response stream is open
    sessionOpen,    \* the requests.Session is open
    stopped,        \* the local variable stopped
    full_response,  \* the accumulated text
    frags,          \* the lines read from the stream, in order
    events,         \* the events yielded to the caller, in order
    abortLog,       \* results of abort_ollama_generation, in order
    transport,      \* how the request or the stream ended: none (not yet),
                    \* eof, Timeout, RequestException
    \* --- one call of a function of the program
    called          \* [fn, arg, ret]

inputs == << dataPath, questionsDir, queriesDir, schemaFile, dbUp, fresh >>
files  == << dataDir, refAnswers, genSql, genAnswers, reportDir, sessions,
            origin >>
dbase  == << dbTables, dbRows >>
ctl    == << pc, run, exitCode, error, is_ready, work, results >>
obs    == << started, returned, dbLog, execLog, before, llmLog, schemaFetches,
             emitted, atStart, resumed6,
                    generatorRuns >>
client == << cpc, cancellable, stop, response, responseOpen, sessionOpen,
             stopped, full_response, frags, events, abortLog, transport >>
pipeline == << inputs, files, dbase, ctl, obs >>
vars   == << inputs, files, dbase, ctl, obs, client, called >>

NoWork == [todo |-> << >>, i |-> 0]
NoResults == [k \in {5, 6, 7} |-> << >>]
\* For stages 5 to 7 the files of the output directory; for stage 9 the three
\* working directories.
NoBefore ==
    [k \in {5, 6, 7, 9} |->
        IF k = 9
        THEN [queries |-> EmptyDir, answers |-> EmptyDir,
              report  |-> [exists |-> FALSE, per_query |-> EmptyDir,
                           summary |-> << >>]]
        ELSE EmptyDir]


\* ------------------------------------------------------- readiness checks
\* A cache check that looks at the directory only.
check_data_cache_dirOnly(d) == d.exists

\* validation.check_data_cache: every <table>.tbl exists with st_size > 0.
check_data_cache(d) ==
    /\ d.exists
    /\ \A t \in Tables : d.tbl[t] \in {"rows", "garbage"}

\* A check that accepts more files than expected.
check_directory_atLeast(dir, expected_count) ==
    IF ~dir.exists THEN "FileNotFoundError"
    ELSE IF Cardinality(dir.files) < expected_count THEN "ValueError"
    ELSE "ok"

\* validation.check_directory: "ok", or the exception it raises.
check_directory(dir, expected_count) ==
    IF ~dir.exists THEN "FileNotFoundError"
    ELSE IF Cardinality(dir.files) # expected_count THEN "ValueError"
    ELSE "ok"

\* validation.check_database_ready: any exception (here: no connection) is False.
\* A probe that never finds the database ready.
check_database_ready_never(up, tables, rows) == FALSE

\* A probe that looks at the table names only.
check_database_ready_namesOnly(up, tables, rows) ==
    up /\ Tables \subseteq tables

\* up: the engine connects; tables: the lower-cased names the inspector
\* returns; rows: per expected table what SELECT 1 FROM <table> LIMIT 1 finds,
\* a negative number when the statement raises.
check_database_ready(up, tables, rows) ==
    IF ~up THEN FALSE
    ELSE /\ Tables \subseteq tables
         /\ \A i \in 1..Len(TPCH_TABLES) : rows[TPCH_TABLES[i]] > 0

\* validation.check_answers_completeness: (is_complete, missing_query_ids).
\* A completeness check that reports every expected identifier as missing.
check_answers_completeness_all(answers, queries) ==
    [complete |-> FALSE, missing |-> queries.files]

check_answers_completeness(answers, queries) ==
    LET expected == queries.files
        missing  == expected \ DOMAIN answers.files
    IN  IF ~answers.exists
        THEN [complete |-> FALSE, missing |-> expected]
        ELSE [complete |-> Cardinality(missing) = 0, missing |-> missing]

\* ------------------------------------------------------------ orchestrator
PcOf(k) == << "s1", "s2", "s3", "s4", "s5", "s6", "s7", "s8", "s9" >>[k]

\* main(): the stage that follows stage k (stage 4 only `if not is_ready`).
\* An orchestrator that executes the generated queries before generating them.
StageAfter_swapped(k, ready) ==
    IF k = 9 THEN "exit"
    ELSE IF k = 3 THEN (IF ~ready THEN PcOf(4) ELSE PcOf(5))
    ELSE IF k = 5 THEN PcOf(7)
    ELSE IF k = 7 THEN PcOf(6)
    ELSE IF k = 6 THEN PcOf(8)
    ELSE PcOf(k + 1)

\* An orchestrator that sets the database up whatever stage 3 returned.
StageAfter_always4(k, ready) ==
    IF k = 9 THEN "exit" ELSE PcOf(k + 1)

StageAfter(k, ready) ==
    IF k = 9 THEN "exit"
    ELSE IF k = 3 THEN (IF ~ready THEN PcOf(4) ELSE PcOf(5))
    ELSE PcOf(k + 1)

\* main(): `return 0` after stage 9, `return 1` in each except clause.
\* An orchestrator whose except clauses return 0.
ExitCodeFor_zero(outcome) == 0

\* An orchestrator that lets an unexpected error count as success.
ExitCodeFor_unexpectedZero(outcome) ==
    IF outcome \in { "ok", "Exception" } THEN 0 ELSE 1

ExitCodeFor(outcome) == IF outcome = "ok" THEN 0 ELSE 1

Running == pc \notin {"exit", "killed"}

StageStarts(k)  == started' = Append(started, k)
StageReturns(k) == returned' = returned \cup {k}

NoError == [exc |-> "none", message |-> << >>]

\* An exception of class exc with the given message leaves the stage and
\* reaches one of main()'s except clauses.
RaiseWith(exc, message) ==
    /\ pc' = "exit"
    /\ exitCode' = ExitCodeFor(exc)
    /\ error' = [exc |-> exc, message |-> message]
    /\ work' = NoWork
    /\ UNCHANGED returned

Raise(exc) == RaiseWith(exc, << >>)

\* What the external generator leaves behind when it exits 0.
GeneratedData == [exists |-> TRUE, tbl |-> [t \in Tables |-> "rows"]]

\* Stage 1: orchestrator lines 51-60 and step_1_generate_data.
Step1 ==
    /\ pc = "s1"
    /\ StageStarts(1)
    /\ IF dataPath \/ check_data_cache(dataDir)
       THEN /\ UNCHANGED << dataDir, generatorRuns >>
            /\ StageReturns(1)
            /\ pc' = StageAfter(1, FALSE)
            /\ UNCHANGED << exitCode, error, work >>
       ELSE \E returncode \in {0, 1} :
              /\ generatorRuns' = generatorRuns + 1
              /\ IF returncode # 0
                 THEN /\ dataDir' = [dataDir EXCEPT !.exists = TRUE]
                      /\ Raise("RuntimeError")
                 ELSE /\ dataDir' = GeneratedData
                      /\ StageReturns(1)
                      /\ pc' = StageAfter(1, FALSE)
                      /\ UNCHANGED << exitCode, error, work >>
    /\ UNCHANGED << inputs, client, called, refAnswers, genSql, genAnswers, reportDir, sessions, origin,
                    dbase, run, is_ready, results, dbLog, execLog, before, llmLog,
                    schemaFetches, emitted, atStart, resumed6 >>

\* Stage 2: step_2_validate_directories.
step_2_validate_directories(questions, queries) ==
    LET q == check_directory(questions, ExpectedCount)
    IN  IF q # "ok" THEN q ELSE check_directory(queries, ExpectedCount)

Step2 ==
    /\ pc = "s2"
    /\ StageStarts(2)
    /\ LET r == step_2_validate_directories(questionsDir, queriesDir)
       IN  IF r = "ok"
           THEN /\ StageReturns(2)
                /\ pc' = StageAfter(2, FALSE)
                /\ UNCHANGED << exitCode, error, work >>
           ELSE Raise(r)
    /\ UNCHANGED << inputs, client, called, files, dbase, run, is_ready, results, dbLog,
                    execLog, before, llmLog, schemaFetches, emitted, atStart, resumed6,
                    generatorRuns >>

\* Stage 3: step_3_check_database_readiness.
Step3 ==
    /\ pc = "s3"
    /\ StageStarts(3)
    /\ StageReturns(3)
    /\ LET ready == check_database_ready(dbUp, dbTables, dbRows)
       IN  /\ is_ready' = (IF ready THEN "yes" ELSE "no")
           /\ pc' = StageAfter(3, ready)
    /\ UNCHANGED << inputs, client, called, files, dbase, run, exitCode, error, work, results, dbLog,
                    execLog, before, llmLog, schemaFetches, emitted, atStart, resumed6,
                    generatorRuns >>

DbOp(op, table) == [op |-> op, table |-> table]

\* Stage 4, pipeline lines 112-145: schema file check, engine.begin(),
\* pg_terminate_backend of the other connections.
Step4Terminate ==
    /\ pc = "s4"
    /\ StageStarts(4)
    /\ IF schemaFile = "missing"
       THEN Raise("FileNotFoundError") /\ UNCHANGED dbLog
       ELSE IF ~dbUp
       THEN RaiseWith("RuntimeError", << "Failed to load schema" >>)
            /\ UNCHANGED dbLog
       ELSE /\ dbLog' = Append(dbLog, DbOp("terminate", "-"))
            /\ pc' = "s4_ddl"
            /\ UNCHANGED << exitCode, error, work, returned >>
    /\ UNCHANGED << inputs, client, called, files, dbase, run, is_ready, results, execLog, before,
                    llmLog, schemaFetches, emitted, atStart, resumed6,
                    generatorRuns >>

\* An installer whose statements commit one by one: those before the failing
\* one stay.
Step4Schema_autocommit ==
    /\ pc = "s4_ddl"
    /\ IF schemaFile = "bad"
       THEN /\ dbLog' = Append(dbLog, DbOp("ddl_rollback", "-"))
            /\ RaiseWith("RuntimeError", << "Failed to load schema" >>)
            /\ dbTables' = dbTables \cup { TPCH_TABLES[1] }
            /\ UNCHANGED dbRows
       ELSE /\ dbLog' = Append(dbLog, DbOp("ddl_commit", "-"))
            /\ dbTables' = Tables
            /\ dbRows' = [t \in Tables |-> 0]
            /\ pc' = "s4_check"
            /\ UNCHANGED << exitCode, error, work, returned >>
    /\ UNCHANGED << inputs, client, called, files, run, is_ready, results, started, execLog, before,
                    llmLog, schemaFetches, emitted, atStart, resumed6,
                    generatorRuns >>

\* Stage 4, pipeline lines 147-151: the DDL statements and the commit of the
\* transaction; a failing statement rolls all of them back.  The script
\* (re)creates the eight tables empty and without the indexes.
Step4Schema ==
    /\ pc = "s4_ddl"
    /\ IF schemaFile = "bad"
       THEN /\ dbLog' = Append(dbLog, DbOp("ddl_rollback", "-"))
            /\ RaiseWith("RuntimeError", << "Failed to load schema" >>)
            /\ UNCHANGED dbase
       ELSE /\ dbLog' = Append(dbLog, DbOp("ddl_commit", "-"))
            /\ dbTables' = Tables
            /\ dbRows' = [t \in Tables |-> 0]
            /\ pc' = "s4_check"
            /\ UNCHANGED << exitCode, error, work, returned >>
    /\ UNCHANGED << inputs, client, called, files, run, is_ready, results, started, execLog, before,
                    llmLog, schemaFetches, emitted, atStart, resumed6,
                    generatorRuns >>

\* data_loader.load_tpch_data lines 42-48: the directory and the eight files.
load_precheck(d) ==
    IF ~d.exists THEN "FileNotFoundError"
    ELSE IF \E i \in 1..Len(TPCH_TABLES) : d.tbl[TPCH_TABLES[i]] = "absent"
    THEN "FileNotFoundError"
    ELSE "ok"

Step4LoadCheck ==
    /\ pc = "s4_check"
    /\ IF load_precheck(dataDir) = "ok"
       THEN /\ pc' = "s4_load"
            /\ work' = [todo |-> TPCH_TABLES, i |-> 1]
            /\ UNCHANGED << exitCode, error, returned >>
       ELSE RaiseWith("RuntimeError", << "Failed to load data",
                                        load_precheck(dataDir) >>)
    /\ UNCHANGED << inputs, client, called, files, dbase, run, is_ready, results, started,
                    dbLog, execLog, before, llmLog, schemaFetches, emitted, atStart, resumed6,
                    generatorRuns >>

FileRows(f) == IF f = "rows" THEN 1 ELSE 0

\* data_loader.load_tpch_data lines 66-76: what can fail inside the try block,
\* the COPY statement or the sed process that feeds it.
LoadCauses == {"copy_expert", "sed failed with exit code"}

\* A loader that prints the failure of one table and goes on to the next.
Step4LoadTable_continues ==
    /\ pc = "s4_load"
    /\ LET table == TPCH_TABLES[work.i]
       IN  /\ IF dataDir.tbl[table] = "garbage"
              THEN /\ dbLog' = Append(dbLog, DbOp("load_rollback", table))
                   /\ UNCHANGED dbRows
              ELSE /\ dbLog' = Append(dbLog, DbOp("load_commit", table))
                   /\ dbRows' = [dbRows EXCEPT
                                   ![table] = @ + FileRows(dataDir.tbl[table])]
           /\ IF work.i = Len(TPCH_TABLES)
              THEN pc' = "s4_index" /\ work' = NoWork
              ELSE pc' = "s4_load" /\ work' = [work EXCEPT !.i = @ + 1]
           /\ UNCHANGED << exitCode, error, returned >>
    /\ UNCHANGED << inputs, client, called, files, dbTables, run, is_ready, results,
                    started, execLog, before, llmLog, schemaFetches, emitted, atStart, resumed6,
                    generatorRuns >>

\* data_loader.load_tpch_data lines 53-85: one table, one transaction.  A
\* file the load chokes on makes copy_expert raise or sed exit non-zero; both
\* are caught at line 77, re-raised naming the table, and leave the with block
\* of line 58, which rolls the transaction back.  The pipeline (lines 161-164)
\* wraps the loader's error once more.
Step4LoadTable ==
    /\ pc = "s4_load"
    /\ LET table == TPCH_TABLES[work.i]
       IN  IF dataDir.tbl[table] = "garbage"
           THEN /\ dbLog' = Append(dbLog, DbOp("load_rollback", table))
                /\ \E cause \in LoadCauses :
                     RaiseWith("RuntimeError", << "Failed to load data",
                                                 "COPY failed for", table, cause >>)
                /\ UNCHANGED dbRows
           ELSE /\ dbLog' = Append(dbLog, DbOp("load_commit", table))
                /\ dbRows' = [dbRows EXCEPT
                                ![table] = @ + FileRows(dataDir.tbl[table])]
                /\ IF work.i = Len(TPCH_TABLES)
                   THEN pc' = "s4_index" /\ work' = NoWork
                   ELSE pc' = "s4_load" /\ work' = [work EXCEPT !.i = @ + 1]
                /\ UNCHANGED << exitCode, error, returned >>
    /\ UNCHANGED << inputs, client, called, files, dbTables, run, is_ready, results,
                    started, execLog, before, llmLog, schemaFetches, emitted, atStart, resumed6,
                    generatorRuns >>

\* An index build whose failure ends the run.
Step4Index_fatal ==
    /\ pc = "s4_index"
    /\ \E ok \in BOOLEAN :
         /\ dbLog' = Append(dbLog, DbOp(IF ok THEN "index_commit"
                                        ELSE "index_rollback", "-"))
         /\ IF ok
            THEN /\ StageReturns(4)
                 /\ pc' = StageAfter(4, FALSE)
                 /\ UNCHANGED << exitCode, error, work >>
            ELSE Raise("RuntimeError")
    /\ UNCHANGED << inputs, client, called, files, dbTables, dbRows, run, is_ready,
                    results, started, execLog, before, llmLog, schemaFetches, emitted,
                    atStart, resumed6, generatorRuns >>

\* Stage 4, pipeline lines 166-189: index build; a failure is only printed.
\* No step of the pipeline reads whether the indexes exist: the outcome of the
\* build is kept in dbLog only.
Step4Index ==
    /\ pc = "s4_index"
    /\ \E ok \in BOOLEAN :
         dbLog' = Append(dbLog, DbOp(IF ok THEN "index_commit"
                                     ELSE "index_rollback", "-"))
    /\ StageReturns(4)
    /\ pc' = StageAfter(4, FALSE)
    /\ UNCHANGED << inputs, client, called, files, dbTables, dbRows, run, exitCode, error, is_ready,
                    work, results, started, execLog, before, llmLog, schemaFetches, emitted,
                    atStart, resumed6,
                    generatorRuns >>

\* ---------------------------------------------------------- query executor
\* What execute_sql_query returns: a str (the exception's message) or a
\* DataFrame.  `writable` is whether DataFrame.to_csv succeeds on it.
ErrorString == [kind |-> "str", cols |-> << >>, data |-> "message", writable |-> TRUE]
DataFrame(cols, data, writable) ==
    [kind |-> "df", cols |-> cols, data |-> data, writable |-> writable]

\* executor.execute_sql_query: the database decides; without a connection
\* engine.connect() raises and the message is returned.
\* A reference query is a fixed text of the benchmark, none of which names a
\* column ERROR; a generated query can be any text.
execute_sql_query(up, any, generated) ==
    IF ~up THEN { ErrorString }
    ELSE IF ~any THEN { DataFrame(<< "c1", "c2" >>, "rows", TRUE) }
    ELSE { ErrorString,
           DataFrame(<< "c1", "c2" >>, "rows", TRUE),
           DataFrame(<< "c1" >>, "rows", FALSE) }
         \cup (IF generated THEN { DataFrame(<< "ERROR" >>, "rows", TRUE) }
               ELSE {})

\* DataFrame.to_csv(index=False): the header line (column names), then the data.
to_csv(df) == [header |-> df.cols, data |-> df.data]

\* pd.DataFrame({"ERROR": [message]})
ErrorFrame(message) == DataFrame(<< "ERROR" >>, message, TRUE)

Result(id, status) == [query_id |-> id, status |-> status]

\* The CSV files of an earlier run that are in place at the start.
OldCsv == [header |-> << "c0" >>, data |-> "rows"]

\* ----------------------------------------------------------------- stage 5
\* A stage's loop is over: it returns its results to main().
LoopDone(k) ==
    /\ StageReturns(k)
    /\ pc' = StageAfter(k, FALSE)
    /\ work' = NoWork

\* The loop of stage k goes on with the next item of to_process, or is over.
LoopNext(k) ==
    IF work.i = Len(work.todo)
    THEN LoopDone(k)
    ELSE /\ work' = [work EXCEPT !.i = @ + 1]
         /\ UNCHANGED << pc, returned >>

\* The stage starts its loop over `todo`, or returns [] when nothing is pending.
LoopStart(k, todo, loop) ==
    IF todo = << >>
    THEN LoopDone(k)
    ELSE /\ work' = [todo |-> todo, i |-> 1]
         /\ pc' = loop
         /\ UNCHANGED returned

\* step_5_generate_answers lines 212-229.
Step5Begin ==
    /\ pc = "s5"
    /\ StageStarts(5)
    /\ before' = [before EXCEPT ![5] = refAnswers.files]
    /\ LET c == check_answers_completeness(refAnswers, queriesDir)
       IN  IF c.complete
           THEN LoopDone(5) /\ UNCHANGED refAnswers
           ELSE /\ refAnswers' = [refAnswers EXCEPT !.exists = TRUE]
                /\ LoopStart(5, SortedSeq(c.missing), "s5_loop")
    /\ UNCHANGED << inputs, client, called, dataDir, genSql, genAnswers, reportDir, sessions, origin,
                    dbase, run, exitCode, error, is_ready, results, dbLog, execLog,
                    llmLog, schemaFetches, emitted, atStart, resumed6,
                    generatorRuns >>

\* step_5_generate_answers lines 231-246: the outcome of one query.
\* An error string and an exception of the try block write no file.
\* A stage 5 that writes the error marker of stage 7.
step_5_item_marker(answers, id, result_df) ==
    IF result_df.kind = "str"
    THEN [files |-> WriteFile(answers, id, to_csv(ErrorFrame(result_df.data))),
          status |-> "error"]
    ELSE IF ~result_df.writable
    THEN [files |-> answers, status |-> "error"]
    ELSE [files |-> WriteFile(answers, id, to_csv(result_df)),
          status |-> "success"]

step_5_item(answers, id, result_df) ==
    IF result_df.kind = "str"
    THEN [files |-> answers, status |-> "error"]
    ELSE IF ~result_df.writable
    THEN [files |-> answers, status |-> "error"]
    ELSE [files |-> WriteFile(answers, id, to_csv(result_df)),
          status |-> "success"]

Step5Item ==
    /\ pc = "s5_loop"
    /\ LET query_id == work.todo[work.i]
       IN  \E result_df \in execute_sql_query(dbUp, query_id \in fresh, FALSE) :
             LET r == step_5_item(refAnswers.files, query_id, result_df)
             IN  /\ execLog' = Append(execLog, [stage |-> 5, id |-> query_id,
                                                ret |-> result_df])
                 /\ refAnswers' = [refAnswers EXCEPT !.files = r.files]
                 /\ results' = [results EXCEPT
                                  ![5] = Append(@, Result(query_id, r.status))]
    /\ LoopNext(5)
    /\ UNCHANGED << inputs, client, called, before, dataDir, genSql, genAnswers, reportDir, sessions, origin,
                    dbase, run, exitCode, error, is_ready, started, dbLog, llmLog,
                    schemaFetches, emitted, atStart, resumed6,
                    generatorRuns >>

\* ----------------------------------------------------------------- stage 6
\* The terminal outcome of one get_sql_from_llm_streaming call as the loop of
\* step 6 consumes it: a done event with the extracted SQL ("": None or ""),
\* an error event, or an exception leaving the generator (a fragment that is
\* JSON but no object: data.get raises AttributeError, service.py line 98).
\* stop_check is None in step 6, so no stopped event occurs.
\* The SQL texts the extraction can yield; "" stands for None and "".  The
\* text differs from the one an earlier run was given (sql_old).
SqlTexts == { "sql_new" }

LlmOutcomes(any) ==
    IF ~any THEN { [type |-> "done", sql |-> "sql_new"] }
    ELSE { [type |-> "done", sql |-> s] : s \in SqlTexts \cup {""} }
           \cup { [type |-> "error", sql |-> ""], [type |-> "raise", sql |-> ""] }

\* step_6_run_core_benchmark lines 276-293.
Step6Begin ==
    /\ pc = "s6"
    /\ StageStarts(6)
    /\ before' = [before EXCEPT ![6] = genSql.files]
    /\ genSql' = [genSql EXCEPT !.exists = TRUE]
    /\ LET question_files == SortedSeq(questionsDir.files)
           existing       == DOMAIN genSql.files
           to_process     == FilterNotIn(question_files, existing)
       IN  IF to_process = << >>
           THEN LoopDone(6) /\ UNCHANGED << exitCode, error, schemaFetches >>
           ELSE /\ schemaFetches' = schemaFetches + 1
                /\ IF ~dbUp
                   THEN Raise("Exception")
                   ELSE LoopStart(6, to_process, "s6_loop")
                        /\ UNCHANGED << exitCode, error >>
    /\ UNCHANGED << inputs, client, called, dataDir, refAnswers, genAnswers, reportDir,
                    sessions, origin, dbase, run, is_ready, results, dbLog, execLog,
                    llmLog, emitted, atStart, resumed6,
                    generatorRuns >>

\* A stage 6 that writes whatever a done event carries, an empty text too.
step_6_item_anyDone(generated, id, chunk) ==
    IF chunk.type = "done"
    THEN [files |-> WriteFile(generated, id, chunk.sql), status |-> "success"]
    ELSE [files |-> generated, status |-> "error"]

\* step_6_run_core_benchmark lines 311-329: `if generated_sql:`.
step_6_item(generated, id, chunk) ==
    IF chunk.type = "done" /\ chunk.sql # ""
    THEN [files |-> WriteFile(generated, id, chunk.sql), status |-> "success"]
    ELSE [files |-> generated, status |-> "error"]

\* step_6_run_core_benchmark lines 297-329, one iteration of the loop.
Step6Item ==
    /\ pc = "s6_loop"
    /\ LET query_id == work.todo[work.i]
       IN  IF query_id \notin questionsDir.pattern
           THEN /\ LoopNext(6)
                /\ UNCHANGED << genSql, results, llmLog, exitCode, error >>
           ELSE /\ llmLog' = Append(llmLog, query_id)
                /\ \E chunk \in LlmOutcomes(query_id \in fresh) :
                     IF chunk.type = "raise"
                     THEN /\ Raise("Exception")
                          /\ UNCHANGED << genSql, results >>
                     ELSE LET r == step_6_item(genSql.files, query_id, chunk)
                          IN  /\ genSql' = [genSql EXCEPT !.files = r.files]
                              /\ results' = [results EXCEPT ![6] =
                                     Append(@, Result(query_id, r.status))]
                              /\ LoopNext(6)
                              /\ UNCHANGED << exitCode, error >>
    /\ UNCHANGED << inputs, client, called, dataDir, refAnswers, genAnswers, reportDir,
                    sessions, origin, dbase, run, is_ready, started, dbLog, execLog, before,
                    schemaFetches, emitted, atStart, resumed6,
                    generatorRuns >>

\* ----------------------------------------------------------------- stage 7
\* step_7_execute_generated_queries lines 359-375.
Step7Begin ==
    /\ pc = "s7"
    /\ StageStarts(7)
    /\ before' = [before EXCEPT ![7] = genAnswers.files]
    /\ genAnswers' = [genAnswers EXCEPT !.exists = TRUE]
    /\ LET query_files == SortedSeq(DOMAIN genSql.files)
           existing    == DOMAIN genAnswers.files
           to_process  == FilterNotIn(query_files, existing)
       IN  LoopStart(7, to_process, "s7_loop")
    /\ UNCHANGED << inputs, client, called, dataDir, refAnswers, genSql, reportDir, sessions, origin,
                    dbase, run, exitCode, error, is_ready, results, dbLog, execLog,
                    llmLog, schemaFetches, emitted, atStart, resumed6,
                    generatorRuns >>

\* step_7_execute_generated_queries lines 381-401: the outcome of one query.
\* An error string, and an exception of the try block, write the marker.
\* A stage 7 that omits the output of a failed query, as stage 5 does.
step_7_item_omit(answers, id, result_df) ==
    IF result_df.kind = "str" \/ ~result_df.writable
    THEN [files |-> answers, status |-> "error"]
    ELSE [files |-> WriteFile(answers, id, to_csv(result_df)),
          status |-> "success"]

step_7_item(answers, id, result_df) ==
    IF result_df.kind = "str"
    THEN [files |-> WriteFile(answers, id, to_csv(ErrorFrame(result_df.data))),
          status |-> "error"]
    ELSE IF ~result_df.writable
    THEN [files |-> WriteFile(answers, id, to_csv(ErrorFrame("exception"))),
          status |-> "error"]
    ELSE [files |-> WriteFile(answers, id, to_csv(result_df)),
          status |-> "success"]

Step7Item ==
    /\ pc = "s7_loop"
    /\ LET query_id == work.todo[work.i]
       IN  \E result_df \in execute_sql_query(dbUp, query_id \in fresh, TRUE) :
             LET r == step_7_item(genAnswers.files, query_id, result_df)
             IN  /\ execLog' = Append(execLog, [stage |-> 7, id |-> query_id,
                                                ret |-> result_df])
                 /\ genAnswers' = [genAnswers EXCEPT !.files = r.files]
                 /\ origin' = [origin EXCEPT !.answers =
                                  [x \in DOMAIN r.files |->
                                      IF x = query_id THEN genSql.files[query_id]
                                      ELSE @[x]]]
                 /\ results' = [results EXCEPT
                                  ![7] = Append(@, Result(query_id, r.status))]
    /\ LoopNext(7)
    /\ UNCHANGED << inputs, client, called, before, dataDir, refAnswers, genSql, reportDir, sessions,
                    dbase, run, exitCode, error, is_ready, started, dbLog, llmLog,
                    schemaFetches, emitted, atStart, resumed6,
                    generatorRuns >>

\* ----------------------------------------------------------------- stage 8
\* step_8_generate_reports lines 466-475: first line of the CSV is "ERROR".
is_error_csv(csv) == csv.header = << "ERROR" >>

classify(answers, qid) ==
    LET has_answer == answers.exists /\ qid \in DOMAIN answers.files
        is_error   == IF has_answer THEN is_error_csv(answers.files[qid])
                      ELSE FALSE
    IN  IF is_error THEN "error"
        ELSE IF has_answer THEN "executed" ELSE "not generated"

\* step_8_generate_reports lines 477-484: the per-query document.
report_doc(generated, answers, qid) ==
    [status    |-> classify(answers, qid),
     generated |-> generated.exists /\ qid \in DOMAIN generated.files]

\* step_8_generate_reports lines 488-499: the counts of summary.md.
\* A summary that counts as executed every identifier that has an answer CSV.
summary_counts_loose(answers, query_ids) ==
    LET total    == Cardinality(query_ids)
        executed == Cardinality({ q \in query_ids :
                        answers.exists /\ q \in DOMAIN answers.files })
        errors   == Cardinality({ q \in query_ids :
                        /\ answers.exists /\ q \in DOMAIN answers.files
                        /\ is_error_csv(answers.files[q]) })
    IN  [total |-> total, executed |-> executed, errors |-> errors,
         not_generated |-> total - executed - errors]

summary_counts(answers, query_ids) ==
    LET total    == Cardinality(query_ids)
        executed == Cardinality({ q \in query_ids :
                        /\ answers.exists /\ q \in DOMAIN answers.files
                        /\ ~is_error_csv(answers.files[q]) })
        errors   == Cardinality({ q \in query_ids :
                        /\ answers.exists /\ q \in DOMAIN answers.files
                        /\ is_error_csv(answers.files[q]) })
    IN  [total |-> total, executed |-> executed, errors |-> errors,
         not_generated |-> total - executed - errors]

NoReport == [exists |-> FALSE, per_query |-> EmptyDir, summary |-> << >>]

\* step_8_generate_reports: one document per reference identifier, in sorted
\* order, then summary.md.
Step8 ==
    /\ pc = "s8"
    /\ StageStarts(8)
    /\ StageReturns(8)
    /\ LET query_ids == queriesDir.files
           docs == [q \in query_ids |-> report_doc(genSql, genAnswers, q)]
           order == SortedSeq(query_ids)
       IN  /\ reportDir' =
                [exists    |-> TRUE,
                 per_query |-> [q \in (DOMAIN reportDir.per_query) \cup query_ids
                                  |-> IF q \in query_ids THEN docs[q]
                                      ELSE reportDir.per_query[q]],
                 summary   |-> << summary_counts(genAnswers, query_ids) >>]
           /\ emitted' = [i \in 1..Len(order) |->
                            [qid |-> order[i], status |-> docs[order[i]].status]]
    /\ genAnswers' = [genAnswers EXCEPT !.exists = TRUE]
    /\ pc' = StageAfter(8, FALSE)
    /\ UNCHANGED << inputs, client, called, dataDir, refAnswers, genSql, sessions, origin, dbase, run,
                    exitCode, error, is_ready, work, results, dbLog, execLog, before, llmLog,
                    schemaFetches, atStart, resumed6,
                    generatorRuns >>

\* What an operation on the file system raises when it fails: an OSError
\* (PermissionError, no space left), which main() catches as Exception.
IoFaults == { "Exception" }

\* step_8_generate_reports has no try block: the mkdir of line 458 fails (or
\* a later read or write; nothing is modelled as written then) and the
\* exception reaches main().
Step8Fails ==
    /\ pc = "s8"
    /\ StageStarts(8)
    /\ \E exc \in IoFaults : Raise(exc)
    /\ UNCHANGED << inputs, client, called, files, dbase, run, is_ready, results, dbLog,
                    execLog, before, llmLog, schemaFetches, emitted, atStart, resumed6,
                    generatorRuns >>

\* ----------------------------------------------------------------- stage 9
NoDir == [exists |-> FALSE, files |-> EmptyDir]

\* step_9_archive_session lines 534-548: the session directory, then the
\* generated queries are moved into it.
Step9Queries ==
    /\ pc = "s9"
    /\ StageStarts(9)
    /\ sessions' = Append(sessions, [queries |-> genSql.files,
                                     answers |-> EmptyDir,
                                     report  |-> NoReport])
    /\ origin' = [origin EXCEPT !.sessions = Append(@, EmptyDir)]
    /\ genSql' = [genSql EXCEPT !.files = EmptyDir]
    /\ before' = [before EXCEPT ![9] = [queries |-> genSql.files,
                                         answers |-> genAnswers.files,
                                         report  |-> reportDir]]
    /\ pc' = "s9_answers"
    /\ UNCHANGED << inputs, client, called, dataDir, refAnswers, genAnswers, reportDir, dbase,
                    run, exitCode, error, is_ready, work, results, returned, dbLog,
                    execLog, llmLog, schemaFetches, emitted, atStart,
                    resumed6,
                    generatorRuns >>

\* step_9_archive_session lines 550-554.
Step9Answers ==
    /\ pc = "s9_answers"
    /\ sessions' = [sessions EXCEPT ![Len(sessions)].answers = genAnswers.files]
    /\ origin' = [answers  |-> EmptyDir,
                  sessions |-> [origin.sessions EXCEPT
                                  ![Len(sessions)] = origin.answers]]
    /\ genAnswers' = [genAnswers EXCEPT !.files = EmptyDir]
    /\ pc' = "s9_report"
    /\ UNCHANGED << inputs, client, called, dataDir, refAnswers, genSql, reportDir, dbase, run,
                    exitCode, error, is_ready, work, results, started, returned,
                    dbLog, execLog, before, llmLog, schemaFetches, emitted, atStart,
                    resumed6,
                    generatorRuns >>

\* An archival that removes the report tree without copying it.
Step9Report_lost ==
    /\ pc = "s9_report"
    /\ reportDir' = NoReport
    /\ pc' = "s9_cleanup"
    /\ UNCHANGED << inputs, client, called, dataDir, refAnswers, genSql, genAnswers, sessions, origin,
                    dbase, run, exitCode, error, is_ready, work, results, obs >>

\* step_9_archive_session lines 556-560: copytree, then rmtree.
Step9Report ==
    /\ pc = "s9_report"
    /\ IF reportDir.exists
       THEN /\ sessions' = [sessions EXCEPT ![Len(sessions)].report = reportDir]
            /\ reportDir' = NoReport
       ELSE UNCHANGED << sessions, reportDir >>
    /\ pc' = "s9_cleanup"
    /\ UNCHANGED << inputs, client, called, dataDir, refAnswers, genSql, genAnswers, origin, dbase,
                    run, exitCode, error, is_ready, work, results, started, returned,
                    dbLog, execLog, before, llmLog, schemaFetches, emitted, atStart,
                    resumed6,
                    generatorRuns >>

\* step_9_archive_session lines 562-568 and main()'s `return 0`.  The report
\* directory lies inside the answers directory.
Step9Cleanup ==
    /\ pc = "s9_cleanup"
    /\ genSql' = NoDir
    /\ genAnswers' = NoDir
    /\ reportDir' = NoReport
    /\ StageReturns(9)
    /\ pc' = StageAfter(9, FALSE)
    /\ exitCode' = ExitCodeFor("ok")
    /\ UNCHANGED error
    /\ UNCHANGED << inputs, client, called, dataDir, refAnswers, sessions, origin, dbase, run,
                    is_ready, work, results, started, dbLog, execLog, before, llmLog,
                    schemaFetches, emitted, atStart, resumed6,
                    generatorRuns >>

\* step_9_archive_session has no try block either: a move of lines 551-553
\* fails after the queries were moved, and the exception reaches main() with
\* the files where the steps before left them.
Step9Fails ==
    /\ pc = "s9_answers"
    /\ \E exc \in IoFaults : Raise(exc)
    /\ UNCHANGED << inputs, client, called, files, dbase, run, is_ready, results, started,
                    dbLog, execLog, before, llmLog, schemaFetches, emitted, atStart,
                    resumed6, generatorRuns >>

\* ------------------------------------------------------------ SQL extraction
\* A text is a sequence of lexemes: the code fence, the language tag sql,
\* a statement keyword (SELECT, INSERT, UPDATE, DELETE, WITH), the terminator,
\* a newline (the whitespace of the texts), the word of a trailing-commentary
\* marker, and any other word.
Fence      == "FENCE"
SqlTag     == "sql"
Keyword    == "SELECT"
Terminator == ";"
Newline    == "NL"
MarkerWord == "Note:"
Word       == "x"
Lexemes == { Fence, SqlTag, Keyword, Terminator, Newline, MarkerWord, Word }

Min(S) == CHOOSE x \in S : \A y \in S : x <= y
Max(S) == CHOOSE x \in S : \A y \in S : x >= y

\* str.strip()
Strip(t) ==
    LET solid == { i \in 1..Len(t) : t[i] # Newline }
    IN  IF solid = {} THEN << >> ELSE SubSeq(t, Min(solid), Max(solid))

\* A return value of _clean_sql_response: None, or a text.
None == [none |-> TRUE, text |-> << >>]
Some(t) == [none |-> FALSE, text |-> t]

\* re.search of the fenced-block pattern: the first fence, the optional tag,
\* the text up to the next fence.
FencedBlock(t) ==
    LET fences == { i \in 1..Len(t) : t[i] = Fence }
    IN  IF Cardinality(fences) < 2 THEN None
        ELSE LET i == Min(fences)
                 j == Min(fences \ {i})
                 from == IF i + 1 < j /\ t[i + 1] = SqlTag THEN i + 2 ELSE i + 1
             IN  Some(Strip(SubSeq(t, from, j - 1)))

\* The positions where a keyword followed by whitespace matches.
KeywordStarts(t) ==
    { p \in 1..(Len(t) - 1) : t[p] = Keyword /\ t[p + 1] = Newline }

\* re.search of keyword, whitespace, anything, terminator: the leftmost keyword with a terminator
\* after it, up to the first such terminator.
TerminatedStatement(t) ==
    LET ends(p) == { q \in (p + 2)..Len(t) : t[q] = Terminator }
        starts  == { p \in KeywordStarts(t) : ends(p) # {} }
    IN  IF starts = {} THEN None
        ELSE LET p == Min(starts)
             IN  Some(Strip(SubSeq(t, p, Min(ends(p)))))

\* re.search of keyword, whitespace, anything but a terminator; then the cut
\* at the first marker.
OpenStatement(t) ==
    LET starts == KeywordStarts(t)
    IN  IF starts = {} THEN None
        ELSE LET p     == Min(starts)
                 terms == { q \in (p + 1)..Len(t) : t[q] = Terminator }
                 last  == IF terms = {} THEN Len(t) ELSE Min(terms) - 1
                 sql   == Strip(SubSeq(t, p, last))
                 marks == { m \in 1..(Len(sql) - 2) :
                              /\ sql[m] = Newline /\ sql[m + 1] = Newline
                              /\ sql[m + 2] = MarkerWord }
             IN  IF marks = {} THEN Some(sql)
                 ELSE Some(Strip(SubSeq(sql, 1, Min(marks) - 1)))

\* The stripped first line of the response, returned when it starts with a
\* keyword.
FirstLine(t) ==
    LET nls  == { i \in 1..Len(t) : t[i] = Newline }
        line == IF nls = {} THEN t ELSE SubSeq(t, 1, Min(nls) - 1)
    IN  IF line # << >> /\ line[1] = Keyword THEN Some(line) ELSE None

\* The extraction with the keyword statement tried before the fenced block.
clean_sql_response_keywordFirst(t) ==
    IF t = << >> THEN None
    ELSE IF ~TerminatedStatement(t).none THEN TerminatedStatement(t)
    ELSE IF ~FencedBlock(t).none THEN FencedBlock(t)
    ELSE IF ~OpenStatement(t).none THEN OpenStatement(t)
    ELSE FirstLine(t)

\* service._clean_sql_response
clean_sql_response(t) ==
    IF t = << >> THEN None
    ELSE IF ~FencedBlock(t).none THEN FencedBlock(t)
    ELSE IF ~TerminatedStatement(t).none THEN TerminatedStatement(t)
    ELSE IF ~OpenStatement(t).none THEN OpenStatement(t)
    ELSE FirstLine(t)

\* ---------------------------------------------------------- model client
\* What the backend can put into one response field.
Tokens == { << >>, << Keyword, Newline, Word >>, << Terminator >> }

\* A line of the stream: empty, not JSON, JSON that is no object, or an object
\* with its response and done fields.  The ends of the stream: the
\* iterator is exhausted, or raises Timeout or another RequestException.
Frag(kind, token, done) == [kind |-> kind, token |-> token, done |-> done]
Fragments ==
    { Frag(k, << >>, FALSE) : k \in { "empty", "garbage", "nonobj" } }
    \cup { Frag("obj", t, d) : t \in Tokens, d \in BOOLEAN }
StreamEnds ==
    { Frag(k, << >>, FALSE) : k \in { "eof", "Timeout", "RequestException" } }

NoStop == [tokens |-> -1, frags |-> -1]
Event(type, text, sql) == [type |-> type, text |-> text, sql |-> sql]
TokenEvents == { i \in 1..Len(events) : events[i].type = "token" }

\* The completion flag not looked at.
DoneFlag_ignored(f) == FALSE

\* Line 103: data.get("done").
DoneFlag(f) == f.done

\* The stop check looked at on the first line only.
StopCheck_firstLineOnly == cancellable /\ stop # NoStop /\ Len(frags) = 0

\* Line 86: stop_check and stop_check(), evaluated once a line has arrived.
StopCheck == cancellable /\ stop # NoStop

\* No invocation is under way.
ClientIdle ==
    /\ cpc = "idle"
    /\ cancellable = FALSE
    /\ stop = NoStop
    /\ response = 0
    /\ responseOpen = FALSE
    /\ sessionOpen = FALSE
    /\ stopped = FALSE
    /\ full_response = << >>
    /\ frags = << >>
    /\ events = << >>
    /\ abortLog = << >>
    /\ transport = "none"

\* bool(response) in the finally clause: there is a response and, by
\* requests.Response.__bool__, it is `ok` (its status is below 400).
ResponseBool(status) == status # 0 /\ status < 400

\* The finally clause, lines 133-137.
Finally ==
    /\ responseOpen' = (IF ResponseBool(response) THEN FALSE ELSE responseOpen)
    /\ sessionOpen' = FALSE

\* A yield of a terminal event: the generator is suspended at it.
YieldTerminal(ev) ==
    /\ events' = Append(events, ev)
    /\ cpc' = "final"

\* A done event that carries the extracted SQL in place of the full text.
DoneEvent_sqlAsText(text) ==
    Event("done", clean_sql_response(text).text, clean_sql_response(text))

\* Lines 104-111 and 119-126: the done event.
DoneEvent(text) == Event("done", text, clean_sql_response(text))
ErrorEvent(message) == Event("error", message, None)

\* The statuses and exceptions of session.post.
PostOutcomes == { 200, 204, 404, 500 }
PostExceptions == { "Timeout", "RequestException" }

\* One except clause for every RequestException, Timeout included.
Except_oneClause(exc) ==
    IF ~stopped
    THEN YieldTerminal(ErrorEvent(<< "connection" >>))
    ELSE /\ cpc' = "ended" /\ UNCHANGED events

\* The except clauses, lines 128-132.
Except(exc) ==
    IF exc = "Timeout"
    THEN YieldTerminal(ErrorEvent(<< "timeout" >>))
    ELSE IF ~stopped
    THEN YieldTerminal(ErrorEvent(<< "connection" >>))
    ELSE /\ cpc' = "ended" /\ UNCHANGED events

\* The caller's first next(): lines 49-82, the session, the request and the
\* test of its status.
Post ==
    /\ cpc = "new"
    /\ \/ \E status \in PostOutcomes :
            /\ response' = status
            /\ responseOpen' = TRUE
            /\ sessionOpen' = TRUE
            /\ IF status = 404
               THEN YieldTerminal(ErrorEvent(<< "not_found" >>))
               ELSE IF status # 200
               THEN YieldTerminal(ErrorEvent(<< "api_error" >>))
               ELSE cpc' = "reading" /\ UNCHANGED events
            /\ UNCHANGED transport
       \/ \E exc \in PostExceptions :
            /\ sessionOpen' = TRUE
            /\ transport' = exc
            /\ Except(exc)
            /\ UNCHANGED << response, responseOpen >>
    /\ UNCHANGED << pipeline, called, cancellable, stop, stopped, full_response,
                    frags, abortLog >>

\* Lines 84-115: the iterator gives the next line (or ends, or raises), the
\* stop check, and the line's handling up to the next yield.
Read ==
    /\ cpc = "reading"
    /\ \E f \in (IF Len(frags) < MaxFrags THEN Fragments ELSE {}) \cup StreamEnds :
         IF f.kind \in { "Timeout", "RequestException" }
         THEN /\ transport' = f.kind
              /\ Except(f.kind)
              /\ UNCHANGED << responseOpen, sessionOpen, stopped, full_response,
                              frags, abortLog >>
         ELSE IF f.kind = "eof"
         THEN /\ transport' = "eof"
              /\ YieldTerminal(DoneEvent(full_response))
              /\ UNCHANGED << responseOpen, sessionOpen, stopped, full_response,
                              frags, abortLog >>
         ELSE /\ frags' = Append(frags, f)
              /\ UNCHANGED transport
              /\ IF StopCheck
                 THEN /\ stopped' = TRUE
                      /\ responseOpen' = FALSE
                      /\ \E ok \in BOOLEAN : abortLog' = Append(abortLog, ok)
                      /\ YieldTerminal(Event("stopped", full_response, None))
                      /\ UNCHANGED << sessionOpen, full_response >>
                 ELSE IF f.kind \in { "empty", "garbage" }
                 THEN UNCHANGED << cpc, events, responseOpen, sessionOpen,
                                   stopped, full_response, abortLog >>
                 ELSE IF f.kind = "nonobj"
                 THEN /\ cpc' = "raised"
                      /\ Finally
                      /\ UNCHANGED << events, stopped, full_response, abortLog >>
                 ELSE IF f.token # << >>
                 THEN /\ full_response' = full_response \o f.token
                      /\ events' = Append(events, Event("token", f.token, None))
                      /\ cpc' = "token"
                      /\ UNCHANGED << responseOpen, sessionOpen, stopped,
                                      abortLog >>
                 ELSE IF DoneFlag(f)
                 THEN /\ YieldTerminal(DoneEvent(full_response))
                      /\ UNCHANGED << responseOpen, sessionOpen, stopped,
                                      full_response, abortLog >>
                 ELSE UNCHANGED << cpc, events, responseOpen, sessionOpen,
                                   stopped, full_response, abortLog >>
    /\ UNCHANGED << pipeline, called, cancellable, stop, response >>

\* The caller's next() after a token: lines 103-113, the done field of the
\* line that carried the token.
AfterToken ==
    /\ cpc = "token"
    /\ IF DoneFlag(frags[Len(frags)])
       THEN YieldTerminal(DoneEvent(full_response))
       ELSE cpc' = "reading" /\ UNCHANGED events
    /\ UNCHANGED << pipeline, called, cancellable, stop, response, responseOpen,
                    sessionOpen, stopped, full_response, frags, abortLog,
                    transport >>

\* The caller's next() after a terminal event: the generator returns through
\* its finally clause.
Finish ==
    /\ cpc = "final"
    /\ cpc' = "ended"
    /\ Finally
    /\ UNCHANGED << pipeline, called, cancellable, stop, response, stopped,
                    full_response, frags, events, abortLog, transport >>

\* The caller leaves its loop at a done or error event (break): the suspended
\* generator is closed, GeneratorExit is raised at its yield and the finally
\* clause runs.
Abandon ==
    /\ cpc = "final"
    /\ events[Len(events)].type \in { "done", "error" }
    /\ cpc' = "abandoned"
    /\ Finally
    /\ UNCHANGED << pipeline, called, cancellable, stop, response, stopped,
                    full_response, frags, events, abortLog, transport >>

\* The caller's stop_check starts to return True.
RequestStop ==
    /\ cancellable
    /\ stop = NoStop
    /\ cpc \in { "new", "reading", "token" }
    /\ stop' = [tokens |-> Cardinality(TokenEvents), frags |-> Len(frags)]
    /\ UNCHANGED << pipeline, called, cpc, cancellable, response, responseOpen,
                    sessionOpen, stopped, full_response, frags, events,
                    abortLog, transport >>

\* -------------------------------------------------- functions on their own
\* The call of _clean_sql_response on called.arg.
CallCleanSql ==
    /\ called.fn = "clean_sql_response"
    /\ ~called.done
    /\ called' = [called EXCEPT !.ret = clean_sql_response(called.arg),
                                !.done = TRUE]
    /\ UNCHANGED << pipeline, client >>

\* A PostgreSQL database as the readiness check meets it.  A table created
\* under an unquoted name is stored in lower case; one created under a quoted
\* name keeps its upper-case letters, and an unquoted name in a statement does
\* not reach it.
TableStates == { "lower_rows", "lower_empty", "upper_rows", "upper_empty", "absent" }

\* inspector.get_table_names(): the stored names.
get_table_names(db) ==
    { [name |-> t, lower |-> db.state[t] \in { "lower_rows", "lower_empty" }] :
        t \in { u \in Tables : db.state[u] # "absent" } }
    \cup (IF db.extra THEN { [name |-> "extra", lower |-> TRUE] } ELSE {})

\* { t.lower() for t in ... }
LowerNames(names) == { n.name : n \in names }

\* SELECT 1 FROM <table> LIMIT 1, the table named in lower case, unquoted.
ProbeRows(db) ==
    [t \in Tables |->
        IF db.state[t] = "lower_rows" THEN 1
        ELSE IF db.state[t] = "lower_empty" THEN 0
        ELSE -1]

\* The call of check_database_ready on called.arg, a database.
CallDatabaseReady ==
    /\ called.fn = "check_database_ready"
    /\ ~called.done
    /\ called' = [called EXCEPT
                    !.ret = check_database_ready(
                                called.arg.up,
                                LowerNames(get_table_names(called.arg)),
                                ProbeRows(called.arg)),
                    !.done = TRUE]
    /\ UNCHANGED << pipeline, client >>

\* The call of check_answers_completeness on called.arg, the answers
\* directory and the queries directory.
CallCompleteness ==
    /\ called.fn = "check_answers_completeness"
    /\ ~called.done
    /\ called' = [called EXCEPT
                    !.ret = check_answers_completeness(called.arg[1],
                                                       called.arg[2]),
                    !.done = TRUE]
    /\ UNCHANGED << pipeline, client >>

\* No table loaded yet, nothing raised.
NoLoad == [loaded |-> << >>, raised |-> << >>]

\* The call load_tpch_data(data_dir, db_url, truncate) with truncate =
\* called.arg[1], one step for the checks of lines 42-48 and one per
\* iteration of the loop of lines 53-85: TRUNCATE ... CASCADE (59-60) and COPY
\* (66-76) in the transaction of line 58, which commits when the with block
\* ends and is rolled back, truncation included, when the block is left by
\* the exception of line 79.
CallLoad ==
    /\ called.fn = "load_tpch_data"
    /\ ~called.done
    /\ LET truncate == called.arg[1]
           table    == TPCH_TABLES[Len(called.ret.loaded) + 1]
           rowcount == FileRows(dataDir.tbl[table])
       IN  IF load_precheck(dataDir) # "ok"
           THEN /\ called' = [called EXCEPT
                                !.ret.raised = << load_precheck(dataDir) >>,
                                !.done = TRUE]
                /\ UNCHANGED << dbRows, dbLog >>
           ELSE IF dataDir.tbl[table] = "garbage"
           THEN /\ dbLog' = Append(dbLog, DbOp("load_rollback", table))
                /\ \E cause \in LoadCauses :
                     called' = [called EXCEPT
                                  !.ret.raised = << "RuntimeError",
                                                    "COPY failed for", table,
                                                    cause >>,
                                  !.done = TRUE]
                /\ UNCHANGED dbRows
           ELSE /\ dbLog' = dbLog \o (IF truncate
                                      THEN << DbOp("truncate", table) >>
                                      ELSE << >>)
                                  \o << DbOp("load_commit", table) >>
                /\ dbRows' = [t \in Tables |->
                                IF t = table
                                THEN (IF truncate THEN 0 ELSE dbRows[t]) + rowcount
                                ELSE IF truncate /\ t \in Dependents(table)
                                THEN 0
                                ELSE dbRows[t]]
                /\ called' = [called EXCEPT
                                !.ret.loaded = Append(@, rowcount),
                                !.done = (Len(called.ret.loaded) + 1
                                          = Len(TPCH_TABLES))]
    /\ UNCHANGED << inputs, files, dbTables, ctl, started, returned, execLog,
                    before, llmLog, schemaFetches, emitted, atStart, resumed6,
                    generatorRuns, client >>

\* A readiness check is made on the files and the database as they are, and
\* its result is noted.
Probed(check, result) ==
    /\ called.fn = "probe"
    /\ Len(called.ret) < MaxProbes
    /\ called' = [called EXCEPT
                    !.ret = Append(@, [check |-> check, result |-> result])]
    /\ UNCHANGED << ctl, obs, client >>

\* A cache check that creates the directory it does not find.
ProbeDataCache_mkdir ==
    /\ Probed("data", check_data_cache(dataDir))
    /\ dataDir' = [dataDir EXCEPT !.exists = TRUE]
    /\ UNCHANGED << inputs, refAnswers, genSql, genAnswers, reportDir, sessions, origin,
                    dbase >>

\* validation.check_data_cache
ProbeDataCache ==
    /\ Probed("data", check_data_cache(dataDir))
    /\ UNCHANGED << inputs, files, dbase >>

\* validation.check_database_ready
ProbeDatabase ==
    /\ Probed("database", check_database_ready(dbUp, dbTables, dbRows))
    /\ UNCHANGED << inputs, files, dbase >>

\* validation.check_answers_completeness
ProbeAnswers ==
    /\ Probed("answers", check_answers_completeness(refAnswers, queriesDir))
    /\ UNCHANGED << inputs, files, dbase >>

\* ------------------------------------------------- interruption and restart
\* The process is killed (a signal, a power loss) between two steps; an open
\* transaction is rolled back by the database.
Interrupt ==
    /\ Running
    /\ pc' = "killed"
    /\ work' = NoWork
    /\ UNCHANGED << inputs, client, called, files, dbase, run, exitCode, error, is_ready, results,
                    obs >>

Snapshot ==
    [answered  |-> DOMAIN refAnswers.files,
     generated |-> DOMAIN genSql.files,
     populated |-> \A t \in Tables : t \in dbTables /\ dbRows[t] > 0]

\* The pipeline is started again; files and database are as they were left.
Restart ==
    /\ ~Running
    /\ run < MaxRuns
    /\ run' = run + 1
    /\ pc' = "s1"
    /\ exitCode' = -1
    /\ error' = NoError
    /\ is_ready' = "unset"
    /\ work' = NoWork
    /\ results' = NoResults
    /\ started' = << >>
    /\ returned' = {}
    /\ dbLog' = << >>
    /\ execLog' = << >>
    /\ before' = NoBefore
    /\ llmLog' = << >>
    /\ schemaFetches' = 0
    /\ emitted' = << >>
    /\ atStart' = Snapshot
    /\ resumed6' = (pc = "killed" /\ 6 \in returned)
    /\ generatorRuns' = 0
    /\ UNCHANGED << inputs, client, called, files, dbase >>

\* ----------------------------------------------------------- initial states
FaultTables == { "region", "lineitem" }

DataDirs ==
    { [exists |-> FALSE, tbl |-> [t \in Tables |-> "absent"]], GeneratedData }
    \cup { [exists |-> TRUE,
            tbl |-> [t \in Tables |-> IF t = f THEN st ELSE "rows"]] :
           f \in FaultTables, st \in { "absent", "empty", "garbage" } }

\* The 22 questions q01..q22 with their pattern, and the 22 reference queries.
NormalQuestions ==
    [exists |-> TRUE, files |-> 1..ExpectedCount, pattern |-> 1..ExpectedCount]
NormalQueries == [exists |-> TRUE, files |-> 1..ExpectedCount]

QuestionDirs ==
    { NormalQuestions,
      [exists |-> FALSE, files |-> {}, pattern |-> {}],
      [exists |-> TRUE, files |-> 1..ExpectedCount, pattern |-> 2..ExpectedCount],
      [exists |-> TRUE, files |-> 2..ExpectedCount, pattern |-> 2..ExpectedCount],
      [exists |-> TRUE, files |-> 2..(ExpectedCount + 1),
       pattern |-> 2..(ExpectedCount + 1)] }

QueryDirs ==
    { NormalQueries,
      [exists |-> FALSE, files |-> {}],
      [exists |-> TRUE, files |-> 2..ExpectedCount],
      [exists |-> TRUE, files |-> 2..(ExpectedCount + 1)],
      [exists |-> TRUE, files |-> 1..(ExpectedCount + 1)] }

\* What an earlier, unfinished run left for the varying identifiers:
\* reference answers, generated queries, and answers of generated queries.
Prior(a, g, e) == [answered |-> a, generated |-> g, executed |-> e]
NoPrior == Prior({}, {}, {})
Priors == { NoPrior, Prior({1}, {}, {}), Prior({}, {1}, {}), Prior({}, {1}, {1}) }

Setup(q, r, s, up, path, d, loaded, prior) ==
    [questions |-> q, queries |-> r, schema |-> s, up |-> up,
     path |-> path, data |-> d, loaded |-> loaded, prior |-> prior]

\* The installations a behaviour starts from: the normal one (no data path
\* configured, the data generated), with the database empty or loaded, and
\* the ones that depart from it in one respect.
Setups ==
    { Setup(q, NormalQueries, "ok", TRUE, FALSE, GeneratedData, l, NoPrior) :
          q \in QuestionDirs, l \in BOOLEAN }
    \cup { Setup(NormalQuestions, r, "ok", TRUE, FALSE, GeneratedData, l, NoPrior) :
          r \in QueryDirs, l \in BOOLEAN }
    \cup { Setup(NormalQuestions, NormalQueries, s, TRUE, FALSE, GeneratedData,
                 l, NoPrior) : s \in { "missing", "bad", "ok" }, l \in BOOLEAN }
    \cup { Setup(NormalQuestions, NormalQueries, "ok", up, FALSE, GeneratedData,
                 l, NoPrior) : up \in BOOLEAN, l \in BOOLEAN }
    \cup { Setup(NormalQuestions, NormalQueries, "ok", TRUE, path, d, FALSE,
                 NoPrior) : path \in BOOLEAN, d \in DataDirs }
    \cup { Setup(NormalQuestions, NormalQueries, "ok", TRUE, path, d, TRUE,
                 NoPrior) : path \in BOOLEAN, d \in { c \in DataDirs : ~c.exists } }
    \cup { Setup(NormalQuestions, NormalQueries, "ok", TRUE, FALSE, GeneratedData,
                 TRUE, p) : p \in Priors }

\* The artifacts of the identifiers outside `varying`, and those of `prior`,
\* are in place.
Cached(ids, varying, prior, content) ==
    [x \in (ids \ varying) \cup (ids \cap prior) |-> content]

\* The files, the database and the orchestrator before a run.
InitPipeline(setups, varying) ==
    /\ fresh = varying
    /\ \E c \in setups :
         /\ questionsDir = c.questions
         /\ queriesDir = c.queries
         /\ schemaFile = c.schema
         /\ dbUp = c.up
         /\ dataPath = c.path
         /\ dataDir = c.data
         /\ dbTables = (IF c.loaded THEN Tables ELSE {})
         /\ dbRows = (IF "rows" \in DOMAIN c THEN c.rows
                      ELSE [t \in Tables |-> IF c.loaded THEN 1 ELSE 0])
         /\ refAnswers = [exists |-> TRUE,
                     files |-> Cached(queriesDir.files, varying,
                                      c.prior.answered, OldCsv)]
         /\ genSql = [exists |-> TRUE,
                 files |-> Cached(questionsDir.files, varying,
                                  c.prior.generated, "sql_old")]
         /\ genAnswers = [exists |-> TRUE,
                     files |-> Cached(questionsDir.files, varying,
                                      c.prior.executed, OldCsv)]
    /\ reportDir = NoReport
    /\ sessions = << >>
    /\ origin = [answers  |-> [x \in DOMAIN genAnswers.files |-> genSql.files[x]],
                 sessions |-> << >>]
    /\ pc = "s1"
    /\ run = 1
    /\ exitCode = -1
    /\ error = NoError
    /\ is_ready = "unset"
    /\ work = NoWork
    /\ results = NoResults
    /\ started = << >>
    /\ returned = {}
    /\ dbLog = << >>
    /\ execLog = << >>
    /\ before = NoBefore
    /\ llmLog = << >>
    /\ schemaFetches = 0
    /\ emitted = << >>
    /\ atStart = Snapshot
    /\ resumed6 = FALSE
    /\ generatorRuns = 0

\* No function has been called on its own.
NoCall == [fn |-> "none", arg |-> << >>, ret |-> << >>, done |-> FALSE]

InitFrom(setups, varying) ==
    /\ InitPipeline(setups, varying)
    /\ ClientIdle
    /\ called = NoCall

\* Every installation, with the artifacts of the identifiers in VarIds left to
\* the run when the database is loaded, and those of identifier 1 only when
\* the run has the database to set up first.
Init ==
    \/ InitFrom({ c \in Setups : c.loaded }, VarIds)
    \/ InitFrom({ c \in Setups : ~c.loaded }, { 1 })

Next ==
    \/ Step1
    \/ Step2
    \/ Step3
    \/ Step4Terminate
    \/ Step4Schema
    \/ Step4LoadCheck
    \/ Step4LoadTable
    \/ Step4Index
    \/ Step5Begin
    \/ Step5Item
    \/ Step6Begin
    \/ Step6Item
    \/ Step7Begin
    \/ Step7Item
    \/ Step8
    \/ Step8Fails
    \/ Step9Queries
    \/ Step9Answers
    \/ Step9Report
    \/ Step9Cleanup
    \/ Step9Fails

\* One run of the orchestrator.
Spec == Init /\ [][Next]_vars

\* Runs that are interrupted once stage 6 has returned, and started again.
ResumeSetups ==
    { c \in Setups :
        /\ c.questions = NormalQuestions /\ c.queries = NormalQueries
        /\ c.schema = "ok" /\ c.up /\ c.prior = NoPrior
        /\ ~c.path /\ c.loaded /\ c.data = GeneratedData }

\* The identifier that varies in the restarted runs.
ResumeVarying == { 1 }

\* The setups of restarted runs over data files given by BENCHMARK_DATA_PATH, one
\* of them without a row; every identifier is answered well.
ResumeDataSetups ==
    { c \in Setups :
        /\ c.questions = NormalQuestions /\ c.queries = NormalQueries
        /\ c.schema = "ok" /\ c.up /\ c.prior = NoPrior
        /\ c.path /\ ~c.loaded /\ c.data.exists
        /\ c.data.tbl["region"] = "empty" }

InitResume ==
    \/ InitFrom(ResumeSetups, ResumeVarying)
    \/ InitFrom(ResumeDataSetups, {})

NextResume ==
    \/ Next
    \/ (6 \in returned /\ run < MaxRuns /\ Interrupt)
    \/ (pc = "killed" /\ Restart)

SpecResume == InitResume /\ [][NextResume]_vars

\* One invocation of the model client, with or without a stop_check, against
\* every behaviour of the backend.
InitClient ==
    /\ InitPipeline(ResumeDataSetups, {})
    /\ called = NoCall
    /\ cpc = "new"
    /\ cancellable \in BOOLEAN
    /\ stop = NoStop
    /\ response = 0
    /\ responseOpen = FALSE
    /\ sessionOpen = FALSE
    /\ stopped = FALSE
    /\ full_response = << >>
    /\ frags = << >>
    /\ events = << >>
    /\ abortLog = << >>
    /\ transport = "none"

NextClient ==
    \/ Post
    \/ Read
    \/ AfterToken
    \/ Finish
    \/ Abandon
    \/ RequestStop

SpecClient == InitClient /\ [][NextClient]_vars

\* The model outputs: up to MaxPieces pieces, one after the other.
Pieces ==
    { << Fence >>, << SqlTag >>, << Keyword, Newline, Word >>, << Keyword >>,
      << Terminator >>, << Newline, Newline, MarkerWord >>, << Word >> }

RECURSIVE Outputs(_)
Outputs(n) ==
    IF n = 0 THEN { << >> }
    ELSE Outputs(n - 1) \cup { t \o p : t \in Outputs(n - 1), p \in Pieces }

\* The directories of the completeness check: CSV files of some stems, with
\* rows or with an error marker, or no directory; .sql files of some stems.
Stems == 1..MaxStems
CsvContents == { OldCsv, to_csv(ErrorFrame("err")) }
AnswerDirs ==
    { NoDir } \cup
    { [exists |-> TRUE, files |-> f] :
        f \in UNION { [S -> CsvContents] : S \in SUBSET Stems } }
SqlDirs ==
    { [exists |-> TRUE, files |-> S] : S \in SUBSET Stems }
    \cup { [exists |-> FALSE, files |-> {}] }

\* The databases of the readiness check: up to MaxFaulty tables are not
\* loaded under their lower-case name.
Databases ==
    { [up |-> u, extra |-> e,
       state |-> [t \in Tables |-> IF t \in DOMAIN f THEN f[t] ELSE "lower_rows"]] :
        u \in BOOLEAN, e \in BOOLEAN,
        f \in UNION { [S -> TableStates \ { "lower_rows" }] :
                        S \in { T \in SUBSET Tables : Cardinality(T) <= MaxFaulty } } }

\* One call of a function, on any of its arguments.
InitPure ==
    /\ InitPipeline(ResumeDataSetups, {})
    /\ ClientIdle
    /\ \/ \E t \in Outputs(MaxPieces) :
            called = [fn |-> "clean_sql_response", arg |-> t, ret |-> << >>,
                      done |-> FALSE]
       \/ \E db \in Databases :
            called = [fn |-> "check_database_ready", arg |-> db, ret |-> << >>,
                      done |-> FALSE]
       \/ \E a \in AnswerDirs, q \in SqlDirs :
            called = [fn |-> "check_answers_completeness", arg |-> << a, q >>,
                      ret |-> << >>, done |-> FALSE]

NextPure ==
    \/ CallCleanSql
    \/ CallDatabaseReady
    \/ CallCompleteness

SpecPure == InitPure /\ [][NextPure]_vars

\* The readiness checks on their own, on the files and the database that a
\* run can find.
InitProbe ==
    /\ InitPipeline(Setups, VarIds)
    /\ ClientIdle
    /\ called = [fn |-> "probe", arg |-> << >>, ret |-> << >>, done |-> FALSE]

NextProbe ==
    \/ ProbeDataCache
    \/ ProbeDatabase
    \/ ProbeAnswers

SpecProbe == InitProbe /\ [][NextProbe]_vars

\* The loader on its own, with and without truncation, on a database whose
\* eight tables hold rows of an earlier load.
OldRows == [Tables -> 1..2]

LoadSetups ==
    { [questions |-> NormalQuestions, queries |-> NormalQueries,
       schema |-> "ok", up |-> TRUE, path |-> TRUE, data |-> d, loaded |-> TRUE,
       prior |-> NoPrior, rows |-> r] : d \in DataDirs, r \in OldRows }

InitLoad ==
    /\ InitPipeline(LoadSetups, {})
    /\ ClientIdle
    /\ \E truncate \in BOOLEAN :
         called = [fn |-> "load_tpch_data", arg |-> << truncate >>,
                   ret |-> NoLoad, done |-> FALSE]

NextLoad == CallLoad

SpecLoad == InitLoad /\ [][NextLoad]_vars

\* The invocation under its scheduling: session.post returns or raises within
\* the timeout (line 73), each read of the stream gives a line, ends or raises
\* within it, and the caller's for loop asks for the next event after a token.
FairClient ==
    /\ SpecClient
    /\ WF_vars(Post)
    /\ WF_vars(Read)
    /\ WF_vars(AfterToken)


\* ================================================================= claims
\* Vocabulary of the properties.
Last(s) == s[Len(s)]
IsPrefix(s, t) == Len(s) <= Len(t) /\ \A i \in 1..Len(s) : s[i] = t[i]
HasStarted(k) == k \in Range(started)
\* Stage k started and the run ended without it returning.
Aborted(k) == HasStarted(k) /\ k \notin returned /\ pc = "exit"
\* The executor calls of stage k, in order, and the identifiers of calls.
ExecOf(k) == LET ofStage(e) == e.stage = k IN SelectSeq(execLog, ofStage)
IdsOf(calls) == [i \in 1..Len(calls) |-> calls[i].id]
LoopPc(k) == IF k = 5 THEN "s5_loop" ELSE IF k = 6 THEN "s6_loop" ELSE "s7_loop"

\* ---------------------------------------------------------------------- C1
\* C1: in every run the stages start in the order 1,2,...,9 with only stage 4
\* possibly left out, each at most once, and a stage starts only when every
\* stage started before it has returned.
C1_StageOrder ==
    /\ started # << >> => started[1] = 1
    /\ \A i \in 1..(Len(started) - 1) :
         /\ \/ started[i + 1] = started[i] + 1
            \/ started[i] = 3 /\ started[i + 1] = 5
         /\ started[i] \in returned
    /\ returned \subseteq Range(started)

\* A run that started all nine stages and finished the last one.
C1_Witness == Len(started) = 9 /\ 9 \in returned /\ pc = "exit"

\* ---------------------------------------------------------------------- C2
\* C2 as stated: a run started again after an interruption that followed
\* stage 6 installs no schema and loads no table, executes no reference
\* query that had an answer CSV, and invokes the model for no identifier that
\* had a generated-SQL file.
C2_ResumeAsStated ==
    (run > 1 /\ resumed6) =>
        /\ ~HasStarted(4)
        /\ dbLog = << >>
        /\ Range(IdsOf(ExecOf(5))) \cap atStart.answered = {}
        /\ Range(llmLog) \cap atStart.generated = {}

\* C2, amended: the same, the part about stage 4 holding when every one of the
\* eight tables held at least one row at the restart.
C2_ResumeWhenPopulated ==
    (run > 1 /\ resumed6) =>
        /\ atStart.populated => (~HasStarted(4) /\ dbLog = << >>)
        /\ Range(IdsOf(ExecOf(5))) \cap atStart.answered = {}
        /\ Range(llmLog) \cap atStart.generated = {}

\* A resumed run over populated tables that skipped stage 4, found cached
\* reference answers and cached generated queries, still had a reference
\* query and a question pending, and went past stage 6.
C2_Witness ==
    /\ run > 1 /\ resumed6 /\ atStart.populated
    /\ atStart.answered # {} /\ atStart.generated # {}
    /\ ExecOf(5) # << >> /\ llmLog # << >>
    /\ 6 \in returned /\ ~HasStarted(4)

\* ---------------------------------------------------------------------- C3
\* C3: stage 4 runs in a run if and only if stage 3 returned not-ready; when
\* stage 3 returned ready (or has not returned) there is no connection
\* termination, no DDL and no table load.
C3_SetupIffNotReady ==
    /\ HasStarted(4) => is_ready = "no"
    /\ is_ready = "no" => (pc = "s4" \/ HasStarted(4))
    /\ is_ready # "no" => dbLog = << >>

\* A run that found the database ready and ran to its end.
C3_Witness == is_ready = "yes" /\ 9 \in returned /\ ~HasStarted(4)

\* ---------------------------------------------------------------------- C4
\* The conditions under which stage 4 cannot succeed.
Stage4Fault ==
    \/ schemaFile # "ok"
    \/ ~dbUp
    \/ load_precheck(dataDir) # "ok"
    \/ \E t \in Tables : dataDir.tbl[t] = "garbage"

\* C4: a failure of one of stages 1 to 4 aborts the run: the failed stage is
\* the last one started and the exit code is not zero; invalid directories
\* fail stage 2, and a missing or failing schema script, a missing data
\* file or a failing table load keep stage 4 from returning.
C4_EarlyFailureAborts ==
    /\ \A k \in 1..4 : Aborted(k) => (exitCode > 0 /\ Last(started) = k)
    /\ (HasStarted(2)
          /\ step_2_validate_directories(questionsDir, queriesDir) # "ok")
       => Aborted(2)
    /\ (HasStarted(4) /\ Stage4Fault)
       => (4 \notin returned /\ ~HasStarted(5) /\ (pc = "exit" => exitCode > 0))

\* A run aborted by a table load that failed after the schema was installed.
C4_Witness ==
    /\ Aborted(4) /\ exitCode = 1
    /\ \E i \in 1..Len(dbLog) : dbLog[i].op = "load_rollback"

\* ---------------------------------------------------------------------- C5
\* C5 as stated: in stages 5, 6 and 7 a failure on one item does not stop
\* the batch: the stage goes through its loop and returns, every pending
\* item is gone through, and the run goes on to the next stage.
C5_ItemFailureIsolated ==
    \A k \in {5, 6, 7} :
        (HasStarted(k) /\ pc # LoopPc(k)) =>
            /\ k \in returned
            /\ pc # "exit"

\* ---------------------------------------------------------------------- C6
\* C6: after stage 7 has returned (and before stage 9 archives the files)
\* every generated-SQL identifier has an answer CSV; for an execution that
\* returned an error the CSV is the marker (header ERROR, the message as its
\* data) and the result is an error; for one that succeeded the CSV is the
\* returned table and the result a success.
C6_EveryGeneratedAnswered ==
    (7 \in returned /\ ~HasStarted(9)) =>
        /\ DOMAIN genSql.files \subseteq DOMAIN genAnswers.files
        /\ Len(results[7]) = Len(ExecOf(7))
        /\ \A i \in 1..Len(ExecOf(7)) :
             LET call == ExecOf(7)[i]
                 csv  == genAnswers.files[call.id]
             IN  /\ results[7][i].query_id = call.id
                 /\ call.ret.kind = "str" =>
                      /\ csv = [header |-> << "ERROR" >>, data |-> call.ret.data]
                      /\ results[7][i].status = "error"
                 /\ results[7][i].status = "success" =>
                      /\ call.ret.kind = "df"
                      /\ csv = [header |-> call.ret.cols, data |-> call.ret.data]
                 /\ results[7][i].status = "error" => csv.header = << "ERROR" >>

\* Stage 7 returned after one execution failed and another succeeded.
C6_Witness ==
    /\ 7 \in returned /\ ~HasStarted(9)
    /\ \E i, j \in 1..Len(ExecOf(7)) :
         /\ ExecOf(7)[i].ret.kind = "str"
         /\ results[7][j].status = "success"

\* ---------------------------------------------------------------------- C7
\* C7 as stated: in stage 5 a reference query whose execution returns an
\* error value has the error marker as its answer CSV.
C7_Stage5MarkerAsStated ==
    5 \in returned =>
        \A i \in 1..Len(ExecOf(5)) :
            LET call == ExecOf(5)[i]
            IN  call.ret.kind = "str" =>
                  /\ call.id \in DOMAIN refAnswers.files
                  /\ is_error_csv(refAnswers.files[call.id])

\* C7, amended: in stage 5, unlike stage 7, a reference query whose execution
\* returns an error value gets no answer CSV; the failure is an error entry
\* of the stage's results only.
C7_Stage5OmitsFailed ==
    HasStarted(5) =>
        /\ Len(results[5]) = Len(ExecOf(5))
        /\ \A i \in 1..Len(ExecOf(5)) :
             LET call == ExecOf(5)[i]
             IN  call.ret.kind = "str" =>
                   /\ call.id \notin DOMAIN refAnswers.files
                   /\ results[5][i] = Result(call.id, "error")

\* Stage 5 returned after an execution that returned an error value.
C7_Witness ==
    /\ 5 \in returned
    /\ \E i \in 1..Len(ExecOf(5)) : ExecOf(5)[i].ret.kind = "str"

\* ---------------------------------------------------------------------- C8
\* The reference identifiers without an answer CSV when stage 5 started.
Missing5 == SortedSeq(queriesDir.files \ DOMAIN before[5])

\* C8: stage 5 executes the reference identifiers that had no answer CSV at
\* its start, in sorted order and each once, all of them by the time it
\* returns; the CSV files that were there at its start are as they were.
C8_Stage5ExecutesMissing ==
    HasStarted(5) =>
        /\ IsPrefix(IdsOf(ExecOf(5)), Missing5)
        /\ 5 \in returned => IdsOf(ExecOf(5)) = Missing5
        /\ \A id \in DOMAIN before[5] :
             /\ id \in DOMAIN refAnswers.files
             /\ refAnswers.files[id] = before[5][id]

\* Stage 5 returned after executing a pending identifier that is not the
\* first one, the first one having its CSV from before.
C8_Witness ==
    /\ 5 \in returned
    /\ 1 \in DOMAIN before[5]
    /\ IdsOf(ExecOf(5)) = Missing5 /\ Missing5 # << >>

\* ---------------------------------------------------------------------- C9
\* The question identifiers without a generated-SQL file when stage 6
\* started, and those of them whose document has the question pattern.
Pending6 == questionsDir.files \ DOMAIN before[6]
Askable6 == SortedSeq(Pending6 \cap questionsDir.pattern)

\* C9: stage 6 invokes the model client for pending identifiers whose
\* document has the pattern only, each once, and for all of them by the time
\* it returns (a document without the pattern does not keep it from
\* returning); the schema is fetched once when an identifier is pending and
\* never otherwise.
C9_Stage6InvokesPending ==
    /\ ~HasStarted(6) => (llmLog = << >> /\ schemaFetches = 0)
    /\ HasStarted(6) =>
         /\ IsPrefix(llmLog, Askable6)
         /\ 6 \in returned => llmLog = Askable6
         /\ schemaFetches = (IF Pending6 = {} THEN 0 ELSE 1)

\* Stage 6 returned after skipping a pending document without the pattern
\* and invoking the model for another, an earlier identifier being cached.
C9_Witness ==
    /\ 6 \in returned
    /\ Pending6 \ questionsDir.pattern # {}
    /\ llmLog # << >>
    /\ DOMAIN before[6] # {}

\* --------------------------------------------------------------------- C10
ReportStatuses == { "executed", "error", "not generated" }
Emitted(st) == Cardinality({ i \in 1..Len(emitted) : emitted[i].status = st })

\* C10: stage 8 emits one document per reference identifier, each with one
\* of the three statuses, and the three counts of the summary are not
\* negative, are the numbers of documents of each status, and add up to the
\* number of reference identifiers.
C10_ReportCounts ==
    (8 \in returned) =>
        /\ [i \in 1..Len(emitted) |-> emitted[i].qid] = SortedSeq(queriesDir.files)
        /\ \A i \in 1..Len(emitted) : emitted[i].status \in ReportStatuses
        /\ (~HasStarted(9)) =>
             /\ Len(reportDir.summary) = 1
             /\ DOMAIN reportDir.per_query = queriesDir.files
             /\ \A i \in 1..Len(emitted) :
                  reportDir.per_query[emitted[i].qid].status = emitted[i].status
             /\ LET c == reportDir.summary[1]
                IN  /\ c.executed >= 0 /\ c.errors >= 0 /\ c.not_generated >= 0
                    /\ c.executed = Emitted("executed")
                    /\ c.errors = Emitted("error")
                    /\ c.not_generated = Emitted("not generated")
                    /\ c.executed + c.errors + c.not_generated
                         = Cardinality(queriesDir.files)
                    /\ c.total = Cardinality(queriesDir.files)

\* A report with documents of each of the three statuses.
C10_Witness ==
    /\ 8 \in returned /\ ~HasStarted(9)
    /\ \A st \in ReportStatuses : Emitted(st) > 0

\* --------------------------------------------------------------------- C11
\* C11: after stage 9 has returned, the session directory holds the
\* generated-SQL files, the generated-answer CSVs and the report tree that
\* the working directories held when stage 9 started, each file once and
\* with its content, and none of the three working directories exists.
C11_ArchiveComplete ==
    9 \in returned =>
        /\ sessions # << >>
        /\ Last(sessions) = [queries |-> before[9].queries,
                             answers |-> before[9].answers,
                             report  |-> before[9].report]
        /\ ~genSql.exists /\ ~genAnswers.exists /\ ~reportDir.exists

\* An archived session with generated queries, answers and a report, stage 9
\* having found all of them in the working directories.
C11_Witness ==
    /\ 9 \in returned
    /\ before[9].queries # EmptyDir /\ before[9].answers # EmptyDir
    /\ before[9].report.exists
    /\ DOMAIN Last(sessions).report.per_query = queriesDir.files

\* ------------------------------------------------------------------ C12 ..
Terminals == { "done", "stopped", "error" }
LastEvent == events[Len(events)]

\* C12: an invocation of the model client that is consumed to the end has
\* delivered exactly one terminal event (done, stopped or error), which is the
\* last event, with only token events before it, and no exception leaves the
\* generator, whatever the backend sends.
C12_OneTerminalNeverRaises ==
    /\ cpc # "raised"
    /\ cpc = "ended" =>
         /\ events # << >>
         /\ LastEvent.type \in Terminals
         /\ \A i \in 1..(Len(events) - 1) : events[i].type = "token"

\* The invocation has delivered its terminal event.
Terminated == cpc \in { "final", "ended", "abandoned" }

\* C13 as stated: once the cancellation predicate has become true after the
\* K-th token, no further token is delivered, at most one further fragment is
\* read, and the terminal event is stopped.
C13_StopAsStated ==
    (stop # NoStop /\ stop.tokens >= 1) =>
        /\ Cardinality(TokenEvents) = stop.tokens
        /\ Len(frags) <= stop.frags + 1
        /\ Terminated => LastEvent.type = "stopped"

\* C13, amended: once the cancellation predicate has become true, no further
\* token is delivered and at most one further fragment is read; if that
\* fragment arrives the terminal event is stopped, whatever the fragment
\* carries, and otherwise (the token's own fragment carried the completion
\* flag, the stream ends, or the read fails) it is done or error.
C13_StopByNextFragment ==
    stop # NoStop =>
        /\ Cardinality(TokenEvents) = stop.tokens
        /\ Len(frags) <= stop.frags + 1
        /\ Len(frags) = stop.frags + 1 =>
             /\ Terminated
             /\ LastEvent = Event("stopped", full_response, None)
        /\ (Terminated /\ Len(frags) = stop.frags) =>
             LastEvent.type \in { "done", "error" }

C13_Witness ==
    /\ stop # NoStop /\ stop.tokens >= 1
    /\ Len(frags) = stop.frags + 1
    /\ frags[Len(frags)].kind = "obj"
    /\ frags[Len(frags)].token # << >>
    /\ frags[Len(frags)].done
    /\ cpc = "ended"
    /\ LastEvent.type = "stopped"

\* The texts of the token events among the first n events, concatenated.
RECURSIVE TokenText(_)
TokenText(n) ==
    IF n = 0 THEN << >>
    ELSE IF events[n].type = "token" THEN TokenText(n - 1) \o events[n].text
    ELSE TokenText(n - 1)

\* C14: the text of a done or stopped event is the concatenation, in order, of
\* the token events delivered before it; the stop/unload request is sent to
\* the backend exactly in the invocations that end in stopped, once, and the
\* event is the same whether the request succeeds or not.
C14_TextAndAbort ==
    /\ (Terminated /\ LastEvent.type \in { "done", "stopped" }) =>
           LastEvent.text = TokenText(Len(events) - 1)
    /\ abortLog # << >> <=> (Terminated /\ LastEvent.type = "stopped")
    /\ Len(abortLog) <= 1

C14_Witness ==
    /\ cpc = "ended"
    /\ LastEvent.type = "stopped"
    /\ LastEvent.text = << Keyword, Newline, Word, Terminator >>
    /\ Cardinality(TokenEvents) = 2
    /\ abortLog = << FALSE >>

\* The tokens of the object lines among the first n lines read, concatenated.
RECURSIVE FragText(_)
FragText(n) ==
    IF n = 0 THEN << >>
    ELSE IF frags[n].kind = "obj" THEN FragText(n - 1) \o frags[n].token
    ELSE FragText(n - 1)

HasDoneFlag(f) == f.kind = "obj" /\ f.done

\* Status 200, stop check false so far: a line with the completion flag is the
\* last line read and ends the invocation in done, after its own token; the end
\* of the stream ends it in done; the text is that of the object lines alone.
DoneByFlagOrEnd ==
    (response = 200 /\ stop = NoStop) =>
        /\ \A i \in 1..(Len(frags) - 1) : ~HasDoneFlag(frags[i])
        /\ (frags # << >> /\ HasDoneFlag(Last(frags))) =>
             /\ transport = "none"
             /\ IF cpc = "token"
                THEN LastEvent = Event("token", Last(frags).token, None)
                ELSE /\ Terminated
                     /\ LastEvent = DoneEvent(full_response)
                     /\ Last(frags).token # << >> =>
                          /\ Len(events) >= 2
                          /\ events[Len(events) - 1] =
                                 Event("token", Last(frags).token, None)
        /\ transport = "eof" =>
             /\ Terminated
             /\ LastEvent = DoneEvent(full_response)
        /\ cpc # "raised" => full_response = FragText(Len(frags))

\* Status 200, stop check false: reading an empty line or a line that is not
\* JSON changes neither the text nor the events, and the loop goes on.
SkipStep ==
    (/\ response = 200 /\ stop = NoStop
     /\ Len(frags') = Len(frags) + 1
     /\ Last(frags').kind \in { "empty", "garbage" })
    => /\ cpc' = "reading"
       /\ full_response' = full_response
       /\ events' = events

C15_WitnessStreamEnd ==
    /\ response = 200 /\ stop = NoStop
    /\ transport = "eof"
    /\ full_response # << >>
    /\ \A i \in 1..Len(frags) : ~HasDoneFlag(frags[i])
    /\ LastEvent.type = "done"

\* The events are token events followed by the error event of message m.
EndsInError(m) ==
    /\ Terminated
    /\ LastEvent = ErrorEvent(m)
    /\ \A i \in 1..(Len(events) - 1) : events[i].type = "token"

C17_ClosedOnEveryExit ==
    cpc \in { "ended", "abandoned" } => (~responseOpen /\ ~sessionOpen)

\* C18: with a backend that keeps sending lines until it ends the stream, or
\* falls silent until the timeout fires, every invocation eventually reaches a
\* terminal state: it delivers done, stopped or error.
C18_EventuallyTerminal == <>Terminated

\* The text holds an opening and a closing fence.
HasFencedBlock(t) == Cardinality({ i \in 1..Len(t) : t[i] = Fence }) >= 2

\* The text between the first two fences, without the language tag that
\* follows the opening fence and without the blanks around it.
FirstBlock(t) ==
    LET i == CHOOSE k \in 1..Len(t) :
                 t[k] = Fence /\ \A h \in 1..(k - 1) : t[h] # Fence
        j == CHOOSE k \in (i + 1)..Len(t) :
                 t[k] = Fence /\ \A h \in (i + 1)..(k - 1) : t[h] # Fence
        inner == SubSeq(t, i + 1, j - 1)
    IN  Strip(IF inner # << >> /\ inner[1] = SqlTag THEN Tail(inner) ELSE inner)

HasBareStatement(t) ==
    \E p \in 1..Len(t) :
        /\ t[p] = Keyword
        /\ \E q \in (p + 1)..Len(t) : t[q] = Terminator
        /\ \E i, j \in 1..(p - 1) : i < j /\ t[i] = Fence /\ t[j] = Fence

\* C19: the extraction takes the first rule that matches, in the order fenced
\* block, keyword statement up to a terminator, keyword statement to the end
\* cut at a commentary marker, first line starting with a keyword; a text with
\* a fenced block gives the contents of its first block, whatever statement
\* stands outside it; an empty text, or one no rule matches, gives nothing.
C19_ExtractionPrecedence ==
    (called.fn = "clean_sql_response" /\ called.done) =>
        LET t == called.arg
            r == called.ret
        IN  /\ HasFencedBlock(t) => r = Some(FirstBlock(t))
            /\ (t # << >> /\ ~HasFencedBlock(t)) =>
                 r = IF ~TerminatedStatement(t).none THEN TerminatedStatement(t)
                     ELSE IF ~OpenStatement(t).none THEN OpenStatement(t)
                     ELSE FirstLine(t)
            /\ (/\ ~HasFencedBlock(t) /\ KeywordStarts(t) = {}
                /\ (t = << >> \/ t[1] # Keyword)) => r = None

C19_Witness ==
    /\ called.fn = "clean_sql_response" /\ called.done
    /\ HasBareStatement(called.arg)
    /\ ~TerminatedStatement(called.arg).none
    /\ called.ret = Some(<< Word >>)
    /\ called.ret # TerminatedStatement(called.arg)

C19_WitnessNothing ==
    /\ called.fn = "clean_sql_response" /\ called.done
    /\ called.arg # << >>
    /\ called.ret = None

\* C20: for every answers directory and queries directory the completeness
\* check returns (b, S) with S the identifiers that have a .sql file and no
\* .csv file, and b true exactly when S is empty; extra CSV files and the
\* contents of the CSV files make no difference.
C20_CompletenessExact ==
    (called.fn = "check_answers_completeness" /\ called.done) =>
        LET answers == called.arg[1]
            queries == called.arg[2]
            csvs    == IF answers.exists THEN DOMAIN answers.files ELSE {}
        IN  /\ called.ret.missing = queries.files \ csvs
            /\ called.ret.complete <=> (called.ret.missing = {})

\* ------------------------------------------------------------------ C21 ..
\* The database holds table t under some spelling of its name.
Present(db, t) == db.state[t] # "absent"
HasRows(db, t) == db.state[t] \in { "lower_rows", "upper_rows" }

\* C21 as stated: the readiness check returns true exactly when the eight
\* tables are present, whatever the case of their names and whatever other
\* tables there are, and each holds a row; when the database cannot be
\* reached it returns false.
C21_ReadyAsStated ==
    (called.fn = "check_database_ready" /\ called.done) =>
        LET db == called.arg
        IN  /\ called.ret \in BOOLEAN
            /\ ~db.up => called.ret = FALSE
            /\ db.up => (called.ret <=>
                           \A t \in Tables : Present(db, t) /\ HasRows(db, t))

\* C21, amended: the readiness check returns true exactly when the database
\* can be reached, the eight names are among the lower-cased table names, and
\* the one-row probe of each table under its lower-case name succeeds and
\* finds a row; a table stored under another spelling passes the name test,
\* fails the probe and gives false.  Other tables make no difference and no
\* exception leaves the check.
C21_ReadyIffProbeSucceeds ==
    (called.fn = "check_database_ready" /\ called.done) =>
        LET db == called.arg
        IN  /\ called.ret \in BOOLEAN
            /\ called.ret <=>
                 /\ db.up
                 /\ \A t \in Tables : db.state[t] = "lower_rows"

C21_Witness ==
    /\ called.fn = "check_database_ready" /\ called.done
    /\ called.arg.up /\ called.arg.extra
    /\ \A t \in Tables : Present(called.arg, t) /\ HasRows(called.arg, t)
    /\ called.arg.state["region"] = "upper_rows"
    /\ called.ret = FALSE

\* The eight table files exist in the data directory, none of them empty.
AllTableFiles(d) ==
    /\ d.exists
    /\ \A t \in Tables : d.tbl[t] # "absent" /\ d.tbl[t] # "empty"

GeneratorInvoked == generatorRuns' = generatorRuns + 1

\* C22 as stated: stage 1 invokes the external generator exactly when the
\* eight table files are not all present with a non-zero size.
C22_GeneratorAsStated ==
    [][pc = "s1" => (GeneratorInvoked <=> ~AllTableFiles(dataDir))]_vars

\* C22, amended: with no data path configured, stage 1 invokes the external
\* generator exactly when the eight table files are not all present with a
\* non-zero size, and otherwise returns with the data directory unchanged;
\* with a data path configured it never invokes the generator and leaves the
\* directory as it is, complete or not.  No other stage invokes the generator.
C22_GeneratorIffCacheMiss ==
    [][/\ pc = "s1" =>
            /\ GeneratorInvoked <=> (~dataPath /\ ~AllTableFiles(dataDir))
            /\ ~GeneratorInvoked =>
                 /\ generatorRuns' = generatorRuns
                 /\ dataDir' = dataDir
                 /\ pc' = "s2"
       /\ (pc # "s1" /\ pc' # "s1") => generatorRuns' = generatorRuns]_vars

C22_Witness ==
    /\ generatorRuns = 1
    /\ ~dataPath
    /\ 1 \in returned
    /\ dataDir = GeneratedData

C22_WitnessPath ==
    /\ dataPath
    /\ 1 \in returned
    /\ ~AllTableFiles(dataDir)
    /\ generatorRuns = 0

\* C23: a readiness check (data cache, database readiness, answer-set
\* completeness) changes no file and no database row, and a check made again
\* with nothing written in between returns what it returned before.
C23_ChecksAreIdempotent ==
    [][called'.ret # called.ret =>
          /\ << files, dbase >>' = << files, dbase >>
          /\ \A i \in 1..Len(called.ret) :
                called.ret[i].check = Last(called'.ret).check =>
                    called.ret[i].result = Last(called'.ret).result]_vars

C23_Witness ==
    /\ called.fn = "probe"
    /\ Len(called.ret) = 3
    /\ called.ret[1].check = "answers"
    /\ ~called.ret[1].result.complete
    /\ called.ret[1].result.missing # {}
    /\ called.ret[2].check = "database"
    /\ called.ret[3] = called.ret[1]

IsLoadOp(e) == e.op \in { "load_commit", "load_rollback" }
LoadOps == SelectSeq(dbLog, IsLoadOp)

\* C24: in a load the tables are loaded one at a time in the order region,
\* nation, part, supplier, customer, partsupp, orders, lineitem, each load
\* beginning after the one before it has committed; so no table's load starts
\* before the load of every table it references has committed.
C24_LoadOrder ==
    /\ IsPrefix([i \in 1..Len(LoadOps) |-> LoadOps[i].table],
                << "region", "nation", "part", "supplier",
                   "customer", "partsupp", "orders", "lineitem" >>)
    /\ \A i \in 1..(Len(LoadOps) - 1) : LoadOps[i].op = "load_commit"
    /\ \A i \in 1..Len(LoadOps) :
         \A parent \in References[LoadOps[i].table] :
            \E j \in 1..(i - 1) : LoadOps[j] = DbOp("load_commit", parent)

C24_Witness ==
    /\ Len(LoadOps) = 8
    /\ LoadOps[8] = DbOp("load_commit", "lineitem")
    /\ 4 \in returned

\* The position in TPCH_TABLES of the table whose load was rolled back, or 0.
FailedAt ==
    IF LoadOps # << >> /\ Last(LoadOps).op = "load_rollback"
    THEN CHOOSE i \in 1..Len(TPCH_TABLES) : TPCH_TABLES[i] = Last(LoadOps).table
    ELSE 0

\* C25: each table is loaded in its own transaction.  When the copy or the
\* sed step fails for table T, T's transaction is rolled back and T holds no
\* row of this load, every table before T has committed and holds the rows of
\* its file, no table after T is loaded, no index is built, and the error that
\* ends the run is a load error naming T and the step that failed.
C25_LoadFailureIsPerTable ==
    FailedAt # 0 =>
        /\ dbRows[TPCH_TABLES[FailedAt]] = 0
        /\ Len(LoadOps) = FailedAt
        /\ \A j \in 1..(FailedAt - 1) :
              /\ LoadOps[j] = DbOp("load_commit", TPCH_TABLES[j])
              /\ dbRows[TPCH_TABLES[j]] = FileRows(dataDir.tbl[TPCH_TABLES[j]])
        /\ \A j \in (FailedAt + 1)..Len(TPCH_TABLES) :
              /\ dbRows[TPCH_TABLES[j]] = 0
              /\ \A k \in 1..Len(dbLog) : dbLog[k].table # TPCH_TABLES[j]
        /\ \A k \in 1..Len(dbLog) :
              dbLog[k].op \notin {"index_commit", "index_rollback"}
        /\ pc = "exit"
        /\ exitCode = 1
        /\ 4 \notin returned
        /\ error.exc = "RuntimeError"
        /\ Len(error.message) = 4
        /\ error.message[2] = "COPY failed for"
        /\ error.message[3] = TPCH_TABLES[FailedAt]
        /\ error.message[4] \in LoadCauses

C25_Witness ==
    /\ FailedAt = 8
    /\ dbRows["orders"] = 1
    /\ dbRows["lineitem"] = 0
    /\ error.message[4] = "sed failed with exit code"

\* The tables whose iteration of a load on its own has committed.
Reloaded == { TPCH_TABLES[j] : j \in 1..Len(called.ret.loaded) }
TruncatingLoad == called.fn = "load_tpch_data" /\ called.arg[1]

\* Every table reloaded so far holds exactly the rows of its file, and every
\* table not yet reloaded that depends on a reloaded one is empty.
ReloadedExactly ==
    TruncatingLoad =>
        /\ \A t \in Reloaded : dbRows[t] = FileRows(dataDir.tbl[t])
        /\ \A t \in Tables \ Reloaded :
              (\E p \in Reloaded : t \in Dependents(p)) => dbRows[t] = 0

\* One iteration: either it commits, the truncation and the load together and
\* no reloaded table changed, or it fails and no table changed at all.
ReloadStep ==
    TruncatingLoad =>
        LET table == TPCH_TABLES[Len(called.ret.loaded) + 1]
        IN  IF called'.ret.raised # << >>
            THEN /\ dbRows' = dbRows
                 /\ called'.ret.loaded = called.ret.loaded
            ELSE /\ dbLog' = dbLog \o << DbOp("truncate", table),
                                         DbOp("load_commit", table) >>
                 /\ \A t \in Reloaded : dbRows'[t] = dbRows[t]
                 /\ dbRows'[table] = FileRows(dataDir.tbl[table])

\* C26: a load with truncate=true into non-empty tables leaves each table
\* with exactly the rows of its new file: a table is truncated and loaded in
\* one transaction, the cascade empties the tables that depend on it, and no
\* table already reloaded is emptied by the truncation of a later table.
C26_TruncateReload == []ReloadedExactly /\ [][ReloadStep]_vars

C26_Witness ==
    /\ TruncatingLoad
    /\ called.done
    /\ called.ret.raised = << >>
    /\ Len(called.ret.loaded) = Len(TPCH_TABLES)
    /\ dataDir.tbl["region"] = "empty"
    /\ dbRows = [t \in Tables |-> IF t = "region" THEN 0 ELSE 1]

IsDdlOp(e) == e.op \in { "ddl_commit", "ddl_rollback" }
DdlFailed == \E k \in 1..Len(dbLog) : dbLog[k].op = "ddl_rollback"

\* The DDL of a run is one transaction, opened after the other connections
\* were terminated; after a failed one the run has ended with a runtime error
\* and has loaded nothing.
SchemaInOneTransaction ==
    /\ Len(SelectSeq(dbLog, IsDdlOp)) <= 1
    /\ \A k \in 1..Len(dbLog) :
          IsDdlOp(dbLog[k]) =>
              /\ k > 1
              /\ dbLog[k - 1].op = "terminate"
              /\ \A j \in 1..(k - 1) : ~IsDdlOp(dbLog[j]) /\ ~IsLoadOp(dbLog[j])
    /\ DdlFailed =>
          /\ LoadOps = << >>
          /\ Last(dbLog).op = "ddl_rollback"
          /\ Aborted(4)
          /\ exitCode = 1
          /\ error = [exc |-> "RuntimeError",
                      message |-> << "Failed to load schema" >>]

\* The step in which the script fails leaves the tables and their rows as
\* they were.
FailedSchemaStep ==
    (Len(dbLog') > Len(dbLog) /\ Last(dbLog').op = "ddl_rollback")
        => (dbTables' = dbTables /\ dbRows' = dbRows)

\* C27: the schema installer terminates the other connections before any DDL
\* statement and executes the DDL statements in one transaction; when a
\* statement fails none of the DDL takes effect, stage 4 fails with a runtime
\* error and no table load is attempted.
C27_SchemaAllOrNothing == []SchemaInOneTransaction /\ [][FailedSchemaStep]_vars

C27_Witness ==
    /\ DdlFailed
    /\ dbLog = << DbOp("terminate", "-"), DbOp("ddl_rollback", "-") >>
    /\ dbTables = {}
    /\ pc = "exit"

IsIndexOp(e) == e.op \in { "index_commit", "index_rollback" }

\* An index build comes after the eight committed loads of the run, and
\* after it stage 4 has returned, the run has not failed in stage 4, and the
\* tables hold the rows of their files.
IndexAfterLoads ==
    \A k \in 1..Len(dbLog) :
        IsIndexOp(dbLog[k]) =>
            /\ [i \in 1..Len(TPCH_TABLES) |-> DbOp("load_commit", TPCH_TABLES[i])]
                   = SelectSeq(SubSeq(dbLog, 1, k - 1), IsLoadOp)
            /\ 4 \in returned
            /\ ~Aborted(4)
            /\ dbTables = Tables
            /\ \A t \in Tables : dbRows[t] = FileRows(dataDir.tbl[t])

\* The step of a failed index build returns from stage 4 to main(), which
\* goes on to stage 5, with the tables as they were.
FailedIndexStep ==
    (Len(dbLog') > Len(dbLog) /\ Last(dbLog').op = "index_rollback")
        => /\ 4 \notin returned
           /\ 4 \in returned'
           /\ pc' = "s5"
           /\ exitCode' = -1
           /\ error' = NoError
           /\ dbTables' = dbTables
           /\ dbRows' = dbRows

\* C28: within stage 4 the indexes are built only after all eight tables have
\* been loaded and committed, and a failure of the index build is not fatal:
\* stage 4 returns normally, the loaded data is kept and the run goes on to
\* stage 5.
C28_IndexLastAndNonFatal == []IndexAfterLoads /\ [][FailedIndexStep]_vars

C28_Witness ==
    /\ dbLog # << >>
    /\ Last(dbLog).op = "index_rollback"
    /\ HasStarted(5)
    /\ dbRows["lineitem"] = 1
    /\ pc = "exit"
    /\ exitCode = 0

\* Both directories exist and hold exactly 22 .md files and 22 .sql files.
DirectoriesAsExpected ==
    /\ questionsDir.exists
    /\ Cardinality(questionsDir.files) = 22
    /\ queriesDir.exists
    /\ Cardinality(queriesDir.files) = 22

\* C29: stage 2 passes if and only if the questions directory and the
\* reference-SQL directory both exist and hold exactly 22 question files and
\* exactly 22 reference-SQL files; a missing directory or any other count is
\* a fatal error, raised before any access to the database and before any
\* later stage.
C29_Stage2Validation ==
    HasStarted(2) =>
        /\ (2 \in returned) <=> DirectoriesAsExpected
        /\ ~DirectoriesAsExpected =>
              /\ pc = "exit"
              /\ exitCode = 1
              /\ error.exc = (IF ~questionsDir.exists
                                 \/ (Cardinality(questionsDir.files) = 22
                                     /\ ~queriesDir.exists)
                              THEN "FileNotFoundError" ELSE "ValueError")
              /\ started = << 1, 2 >>
              /\ dbLog = << >>
              /\ execLog = << >>
              /\ llmLog = << >>
              /\ schemaFetches = 0
              /\ is_ready = "unset"

C29_Witness ==
    /\ HasStarted(2)
    /\ questionsDir = NormalQuestions
    /\ queriesDir.exists
    /\ Cardinality(queriesDir.files) = 23
    /\ error.exc = "ValueError"

C29_WitnessPass ==
    /\ DirectoriesAsExpected
    /\ 2 \in returned
    /\ HasStarted(3)

\* An item of stage k was recorded as failed.
ItemFailed(k) == \E i \in 1..Len(results[k]) : results[k][i].status = "error"
ErrorClasses == { "FileNotFoundError", "ValueError", "RuntimeError", "Exception" }

\* C30: the exit code is 0 if and only if every stage that ran returned with
\* no exception escaping, also when items failed individually in stages 5 to
\* 7; it is 1 for every configuration, validation, runtime or unexpected
\* error, a failure in stage 8 or stage 9 included.
C30_ExitCode ==
    /\ pc # "exit" => (exitCode = -1 /\ error = NoError)
    /\ pc = "exit" =>
          /\ exitCode \in { 0, 1 }
          /\ exitCode = 0 <=>
                (error = NoError /\ \A k \in Range(started) : k \in returned)
          /\ exitCode = 1 <=> error.exc \in ErrorClasses
          /\ exitCode = 0 => 9 \in returned

C30_Witness ==
    /\ pc = "exit"
    /\ exitCode = 1
    /\ error.exc = "Exception"
    /\ HasStarted(9)
    /\ 8 \in returned
    /\ ItemFailed(7)

C30_WitnessItems ==
    /\ pc = "exit"
    /\ exitCode = 0
    /\ ItemFailed(5)
    /\ ItemFailed(6)
    /\ ItemFailed(7)

\* ---------------------------------------------------------------------- C31
\* C31: across runs, interrupted and restarted ones included, every answer
\* CSV in a session directory is the result of executing the generated-SQL
\* file of the same identifier in that session: the session holds such a
\* file, and the CSV was produced from its text.
C31_SessionAnswersFromOwnSql ==
    \A k \in 1..Len(sessions) :
        \A id \in DOMAIN sessions[k].answers :
            /\ id \in DOMAIN sessions[k].queries
            /\ origin.sessions[k][id] = sessions[k].queries[id]

\* ---------------------------------------------------------------------- C32
\* The identifiers for which stage 7 of this run wrote an answer CSV.
AnsweredIn7 == Range(IdsOf(ExecOf(7)))

\* C32: when stage 8 has returned, every identifier for which stage 7 wrote
\* an answer CSV is reported as executed or error, and the not-generated
\* count of the summary is the number of question identifiers that have no
\* generated answer.
C32_ReportCoversProcessed ==
    (pc = "s9" /\ 8 \in returned) =>
        /\ \A id \in AnsweredIn7 :
              \E i \in 1..Len(emitted) :
                  /\ emitted[i].qid = id
                  /\ emitted[i].status \in { "executed", "error" }
        /\ reportDir.summary[1].not_generated =
              Cardinality({ q \in questionsDir.files :
                              q \notin DOMAIN genAnswers.files })

\* ---------------------------------------------------------------------- C33
\* The ways an invocation can end for the loop of stage 6.
Endings ==
    { [type |-> "done", sql |-> s] : s \in SqlTexts \cup { "" } }
    \cup { [type |-> "error", sql |-> ""], [type |-> "stopped", sql |-> ""] }

\* What stage 6 does with each ending: a file, with the text, exactly for a
\* done event with a non-empty text, and an error result otherwise.
Stage6PerEnding ==
    \A chunk \in Endings :
        LET r == step_6_item(EmptyDir, 1, chunk)
        IN  IF chunk.type = "done" /\ chunk.sql # ""
            THEN r = [files |-> WriteFile(EmptyDir, 1, chunk.sql),
                      status |-> "success"]
            ELSE r = [files |-> EmptyDir, status |-> "error"]

\* Before stage 9 moves the files: the identifiers with a success result of
\* this run's stage 6 have a file with a text, those with an error result
\* have none.
Stage6FilesMatchResults ==
    ~HasStarted(9) =>
        \A i \in 1..Len(results[6]) :
            LET id == results[6][i].query_id
            IN  IF results[6][i].status = "success"
                THEN id \in DOMAIN genSql.files /\ genSql.files[id] # ""
                ELSE id \notin DOMAIN genSql.files

\* A run that finds a question with no generated file invokes the model for
\* it (again), once its stage 6 has returned.
PendingInvokedAgain ==
    (run > 1 /\ 6 \in returned) =>
        \A id \in questionsDir.pattern \ atStart.generated :
            id \in Range(llmLog)

\* One invocation in stage 6 either adds the file of its identifier and a
\* success result, or leaves the files alone and adds an error result (or
\* ends the run, when the invocation raised).
Stage6Step ==
    Len(llmLog') > Len(llmLog) =>
        LET id == Last(llmLog')
        IN  \/ /\ id \notin DOMAIN genSql.files
               /\ \E sql \in SqlTexts :
                     genSql'.files = WriteFile(genSql.files, id, sql)
               /\ results'[6] = Append(results[6], Result(id, "success"))
            \/ /\ genSql' = genSql
               /\ results'[6] = Append(results[6], Result(id, "error"))
            \/ /\ genSql' = genSql
               /\ results' = results
               /\ pc' = "exit"

\* C33: stage 6 creates the generated-SQL file of an identifier if and only
\* if its invocation ended in done with a non-empty extracted text; an
\* invocation that ends in error or stopped, or in done without a text,
\* creates no file, is recorded as an error result, and leaves the identifier
\* pending, so that the next run invokes the model for it again.
C33_FileIffDoneWithSql ==
    /\ [](Stage6PerEnding /\ Stage6FilesMatchResults /\ PendingInvokedAgain)
    /\ [][Stage6Step]_vars

\* A second run that invoked the model again for identifier 1, which the
\* first run had left without a file, and now has its file.
C33_Witness ==
    /\ run = 2
    /\ 6 \in returned
    /\ 1 \notin atStart.generated
    /\ atStart.generated # {}
    /\ 1 \in Range(llmLog)
    /\ Result(1, "success") \in Range(results[6])
    /\ genSql.files[1] = "sql_new"

\* ---------------------------------------------------------------------- C34
\* The status stage 8 reported for an identifier.
StatusOf(id) ==
    LET i == CHOOSE i \in 1..Len(emitted) : emitted[i].qid = id
    IN  emitted[i].status
Reported == { emitted[i].qid : i \in 1..Len(emitted) }

\* C34: stage 8 reports an identifier as error if and only if the executor
\* returned an error value for its generated SQL in stage 7, and as executed
\* if and only if the executor returned a tabular result for it, whatever
\* the columns of the result.
C34_ErrorIffExecutorError ==
    (pc = "s9" /\ 8 \in returned) =>
        \A k \in 1..Len(ExecOf(7)) :
            LET e == ExecOf(7)[k]
            IN  e.id \in Reported =>
                    /\ StatusOf(e.id) = "error" <=> e.ret.kind = "str"
                    /\ StatusOf(e.id) = "executed" <=> e.ret.kind = "df"

====
